---- MODULE Spec2Model ----
(***************************************************************************)
(* express-route-registry: the Route entity, the RouteCollection merge     *)
(* algebra, the RouteCollectionBuilder (configuration-tree compiler) and   *)
(* the RouteRegistry (name index, method+canonical-path index, match,      *)
(* generate).                                                              *)
(*                                                                         *)
(* Strings of the program that are parsed (route patterns, prefix keys,    *)
(* request paths) are sequences of atoms: a slash, a literal word or a     *)
(* parameter.  Strings that are only built and compared (route names,      *)
(* method-path keys, error codes) are TLA+ strings.                        *)
(***************************************************************************)
EXTENDS Integers, Sequences, FiniteSets, TLC

VARIABLES routes, routes_by_name, routes_by_canonical_path, result, cfg, built,
          this_route, mount

vars == <<routes, routes_by_name, routes_by_canonical_path, result, cfg, built,
         this_route, mount>>

(***************************************************************************)
(* Bounds of the model.                                                    *)
(***************************************************************************)
\* the registry holds at most this many routes
MaxRoutes == 3
\* configuration trees have at most this many levels below the root
MaxDepth == 2

(***************************************************************************)
(* Generic helpers.                                                        *)
(***************************************************************************)
RECURSIVE Reverse(_)
Reverse(s) == IF s = <<>> THEN <<>> ELSE Reverse(Tail(s)) \o <<Head(s)>>

RECURSIVE Flatten(_)
Flatten(ss) == IF ss = <<>> THEN <<>> ELSE Head(ss) \o Flatten(Tail(ss))

RECURSIVE JoinWith(_, _)
JoinWith(bits, sep) ==
  IF bits = <<>> THEN ""
  ELSE IF Len(bits) = 1 THEN bits[1]
  ELSE bits[1] \o sep \o JoinWith(Tail(bits), sep)

Range(s) == { s[i] : i \in 1..Len(s) }

\* index of the first element of s satisfying Test, 0 when there is none
FirstIndex(s, Test(_)) ==
  IF \E i \in 1..Len(s) : Test(s[i])
  THEN CHOOSE i \in 1..Len(s) : Test(s[i]) /\ \A j \in 1..(i-1) : ~Test(s[j])
  ELSE 0

\* statement sequencing: r is what the statements so far left, [err, coll];
\* Step runs on coll unless one of them has thrown
Then(r, Step(_)) == IF r.err # "" THEN r ELSE Step(r.coll)

\* a throw out of a builder step: the collection under construction is lost
Thrown(r) == IF r.err # "" THEN [err |-> r.err, coll |-> <<>>] ELSE r

(***************************************************************************)
(* Values a configuration can hold where a function is expected.  Arity is *)
(* Function.length; -1 stands for a value that is not a function.          *)
(***************************************************************************)
Middlewares   == {"m1", "m2", "m3", "m4", "m5", "m6"}
ErrorHandlers == {"e1", "e2", "e3", "e4", "e5", "e6", "e7", "e8", "e9"}
Actions       == {"aaaa", "bbbb", "zzzz", "thisThatAction", "anon"}

ParameterConverters == {"pc1", "pc2"}

Arity(f) ==
  IF f \in Middlewares \/ f \in Actions \/ f = "defaultAction" THEN 3
  ELSE IF f \in ErrorHandlers \/ f \in ParameterConverters THEN 4
  ELSE IF f = "twoArgs" THEN 2
  ELSE -1

IsFunction(f) == Arity(f) >= 0

\* Function.name: empty for an anonymous function
FunctionName(f) == IF f = "anon" \/ ~IsFunction(f) THEN "" ELSE f

\* String.prototype.toLowerCase on the names the model uses
ToLowerCase(s) ==
  CASE s = "thisThatAction" -> "thisthataction"
    [] s = "Controller1"    -> "controller1"
    [] s = "Controller2"    -> "controller2"
    [] OTHER                -> s

(***************************************************************************)
(* Route patterns.  A pattern, a prefix key and a request path are         *)
(* sequences of atoms; `re` is the text of a parameter's regex constraint  *)
(* ("" when it has none) and `opt` marks an optional parameter.            *)
(***************************************************************************)
Slash       == [t |-> "slash", v |-> "/", re |-> "", opt |-> FALSE]
Lit(w)      == [t |-> "lit", v |-> w, re |-> "", opt |-> FALSE]
Par(n)      == [t |-> "par", v |-> n, re |-> "", opt |-> FALSE]
ParRe(n, r) == [t |-> "par", v |-> n, re |-> r, opt |-> FALSE]
ParOpt(n)   == [t |-> "par", v |-> n, re |-> "", opt |-> TRUE]
\* a blank, as a prefix key may have around its text
Space       == [t |-> "space", v |-> " ", re |-> "", opt |-> FALSE]

\* the text of one atom as it is written in a pattern
AtomText(a) ==
  IF a.t = "par"
  THEN (IF a.v = "" THEN "" ELSE ":" \o a.v)
       \o (IF a.re = "" THEN "" ELSE "(" \o a.re \o ")")
       \o (IF a.opt THEN "?" ELSE "")
  ELSE a.v

RECURSIVE PatternText(_)
PatternText(p) == IF p = <<>> THEN "" ELSE AtomText(Head(p)) \o PatternText(Tail(p))

\* path-to-regexp names unnamed parameters 0, 1, 2, ... by position
IndexName(k) == CASE k = 0 -> "0" [] k = 1 -> "1" [] k = 2 -> "2" [] OTHER -> "n"

\* a token of pathToRegexp.parse; `bare` is a literal's text without slashes
LitToken(text, bare) ==
  [lit |-> TRUE, text |-> text, bare |-> bare, name |-> "", prefix |-> "",
   re |-> "", opt |-> FALSE]
ParToken(a, prefix, k) ==
  [lit |-> FALSE, text |-> "", bare |-> "",
   name |-> IF a.v = "" THEN IndexName(k) ELSE a.v,
   prefix |-> prefix, re |-> a.re, opt |-> a.opt]

\* pathToRegexp.parse: literal chunks and parameter tokens; the slash right
\* before a parameter is that parameter's prefix, not literal text
RECURSIVE ParseFrom(_, _, _, _)
ParseFrom(p, acc, bare, k) ==
  LET flush == IF acc = "" THEN <<>> ELSE <<LitToken(acc, bare)>> IN
  IF p = <<>> THEN flush
  ELSE IF Head(p).t = "par"
    THEN flush \o <<ParToken(Head(p), "", k)>>
         \o ParseFrom(Tail(p), "", "", IF Head(p).v = "" THEN k + 1 ELSE k)
  ELSE IF Head(p).t = "slash" /\ Len(p) >= 2 /\ p[2].t = "par"
    THEN flush \o <<ParToken(p[2], "/", k)>>
         \o ParseFrom(Tail(Tail(p)), "", "", IF p[2].v = "" THEN k + 1 ELSE k)
  ELSE ParseFrom(Tail(p), acc \o Head(p).v,
                 IF Head(p).t = "slash" THEN bare ELSE bare \o Head(p).v, k)

Parse(p) == ParseFrom(p, "", "", 0)

\* the values a regex constraint accepts: \d+ wants digits, no constraint
\* ([^\/]+?) takes any non-empty segment
Digits == {"1", "3"}
Accepts(re, value) == IF re = "\\d+" THEN value \in Digits ELSE value # ""

\* the matcher pathToRegexp(pattern) builds (non-strict, anchored at the end)
RECURSIVE MatchCore(_, _)
MatchCore(p, s) ==
  IF p = <<>> THEN s = <<>>
  ELSE IF Head(p).t = "slash" /\ Len(p) >= 2 /\ p[2].t = "par"
    THEN \/ p[2].opt /\ MatchCore(Tail(Tail(p)), s)
         \/ /\ Len(s) >= 2 /\ s[1].t = "slash" /\ s[2].t = "lit"
            /\ Accepts(p[2].re, s[2].v)
            /\ MatchCore(Tail(Tail(p)), Tail(Tail(s)))
  ELSE IF Head(p).t = "par"
    THEN \/ Head(p).opt /\ MatchCore(Tail(p), s)
         \/ /\ Len(s) >= 1 /\ s[1].t = "lit" /\ Accepts(Head(p).re, s[1].v)
            /\ MatchCore(Tail(p), Tail(s))
  ELSE Len(s) >= 1 /\ s[1].t = Head(p).t /\ s[1].v = Head(p).v
       /\ MatchCore(Tail(p), Tail(s))

DropTrailingSlash(s) ==
  IF Len(s) >= 1 /\ s[Len(s)].t = "slash" THEN SubSeq(s, 1, Len(s) - 1) ELSE s

PathToRegexpExec(p, path) ==
  \/ MatchCore(DropTrailingSlash(p), path)
  \/ MatchCore(DropTrailingSlash(p), DropTrailingSlash(path)) /\ path # DropTrailingSlash(path)

\* the generator pathToRegexp.compile(pattern) builds; parameters maps the
\* supplied names to values.  [err, path]
RECURSIVE CompiledFrom(_, _, _)
CompiledFrom(p, parameters, k) ==
  IF p = <<>> THEN [err |-> "", path |-> <<>>]
  ELSE
    LET prefixed == Head(p).t = "slash" /\ Len(p) >= 2 /\ p[2].t = "par"
        isPar    == Head(p).t = "par" \/ prefixed
        a        == IF prefixed THEN p[2] ELSE Head(p)
        rest     == IF prefixed THEN Tail(Tail(p)) ELSE Tail(p)
        name     == IF a.v = "" THEN IndexName(k) ELSE a.v
        k2       == IF isPar /\ a.v = "" THEN k + 1 ELSE k
        tail     == CompiledFrom(rest, parameters, k2)
    IN
    IF ~isPar
      THEN IF tail.err # "" THEN tail
           ELSE [err |-> "", path |-> <<Head(p)>> \o tail.path]
    ELSE IF name \notin DOMAIN parameters
      THEN IF a.opt THEN tail
           ELSE [err |-> "missing_parameter", path |-> <<>>]
    ELSE IF ~Accepts(a.re, parameters[name])
      THEN [err |-> "parameter_mismatch", path |-> <<>>]
    ELSE IF tail.err # "" THEN tail
    ELSE [err |-> "",
          path |-> (IF prefixed THEN <<Slash>> ELSE <<>>)
                   \o <<Lit(parameters[name])>> \o tail.path]

PathToRegexpCompile(p, parameters) == CompiledFrom(p, parameters, 0)

(***************************************************************************)
(* Controllers: instances whose class has a name and action methods.  ""   *)
(* is the null controller.                                                 *)
(***************************************************************************)
Controllers == {"Controller1", "Controller2"}

\* controller[action].length, -1 when controller[action] is not a function
ControllerActionArity(controller, action) ==
  CASE controller = "Controller1" /\ action = "c_action1" -> 3
    [] controller = "Controller2" /\ action = "c_action2" -> 3
    [] controller = "Controller2" /\ action = "four_args" -> 4
    [] OTHER -> -1

(***************************************************************************)
(* Route.  A record stands for one Route object; "" stands for null in     *)
(* name and controller.                                                    *)
(***************************************************************************)
HTTP_METHODS == <<"get", "post", "delete", "put", "patch">>

\* a canonical path that keeps the pattern as it is written
GenerateCanonicalRoutePathAsWritten(pattern) == PatternText(pattern)

\* Route._generateCanonicalRoutePath
GenerateCanonicalRoutePath(pattern) ==
  LET parts == Parse(pattern)
      piece(part) == IF part.lit THEN part.text ELSE part.prefix \o ":" \o part.name
  IN JoinWith([i \in 1..Len(parts) |-> piece(parts[i])], "")

\* Route._generateName
GenerateName(r) ==
  IF r.controller # "" /\ r.action # ""
    THEN ToLowerCase(r.controller) \o "_" \o ToLowerCase(r.action)
  ELSE IF IsFunction(r.action) /\ FunctionName(r.action) # ""
    THEN ToLowerCase(FunctionName(r.action))
  ELSE
    LET tokens == Parse(r.pattern)
        bit(token) == IF token.lit THEN token.bare ELSE token.name
    IN JoinWith(<<JoinWith(r.methods, "|")>> \o [i \in 1..Len(tokens) |-> bit(tokens[i])], "_")

\* Route.validate: the code of the first failed check, "" when all pass
Validate(r) ==
  IF r.name = "" THEN "route_missing_name"
  ELSE IF \E i \in 1..Len(r.methods) : r.methods[i] \notin Range(HTTP_METHODS)
    THEN "route_invalid_http_method"
  ELSE IF r.controller # "" /\ r.controller \notin Controllers
    THEN "route_invalid_controller"
  ELSE IF r.controller # "" /\ IsFunction(r.action)
    THEN "route_invalid_action_string"
  ELSE IF r.controller # "" /\ ControllerActionArity(r.controller, r.action) < 0
    THEN "route_action_not_callable"
  ELSE IF r.controller # "" /\ ControllerActionArity(r.controller, r.action) # 3
    THEN "route_controller_action_incorrect_argument_count"
  ELSE IF r.controller = "" /\ ~IsFunction(r.action)
    THEN "route_invalid_function_action"
  ELSE IF r.controller = "" /\ Arity(r.action) # 3
    THEN "route_function_action_incorrect_argument_count"
  ELSE IF FirstIndex(r.middleware, LAMBDA m : Arity(m) # 3) # 0
    THEN IF IsFunction(r.middleware[FirstIndex(r.middleware, LAMBDA m : Arity(m) # 3)])
         THEN "route_middleware_incorrect_argument_count"
         ELSE "route_invalid_middleware"
  ELSE IF FirstIndex(r.parameter_converters, LAMBDA c : Arity(c.parameter_converter) # 4) # 0
    THEN IF IsFunction(r.parameter_converters[
                FirstIndex(r.parameter_converters,
                           LAMBDA c : Arity(c.parameter_converter) # 4)].parameter_converter)
         THEN "route_invalid_parameter_converter_argument_count"
         ELSE "route_invalid_parameter_converter_function"
  ELSE IF FirstIndex(r.error_handlers, LAMBDA e : Arity(e) # 4) # 0
    THEN IF IsFunction(r.error_handlers[FirstIndex(r.error_handlers, LAMBDA e : Arity(e) # 4)])
         THEN "route_error_handler_incorrect_argument_count"
         ELSE "route_invalid_error_handler"
  ELSE ""

\* compile that makes the name up again from the pattern it compiles
CompileRenaming(r) ==
  LET named == [r EXCEPT !.compiled_route = <<r.pattern>>,
                         !.canonical_route_path = GenerateCanonicalRoutePath(r.pattern)]
  IN [named EXCEPT !.name = GenerateName(named)]

\* Route.compile on a route whose compiled_route is null: the generator and the
\* canonical path of the current pattern, the name when there is none yet
Compile(r) ==
  LET named == [r EXCEPT !.compiled_route = <<r.pattern>>,
                         !.canonical_route_path = GenerateCanonicalRoutePath(r.pattern)]
  IN [named EXCEPT !.name = IF r.name # "" THEN r.name ELSE GenerateName(named)]

\* new Route(route_pattern, options): [err, route]
NewRoute(route_pattern, options) ==
  LET r == Compile([pattern |-> route_pattern,
                    action |-> IF options.action = "" THEN "defaultAction" ELSE options.action,
                    methods |-> options.methods,
                    controller |-> options.controller,
                    middleware |-> options.middleware,
                    parameter_converters |-> options.parameter_converters,
                    error_handlers |-> <<>>,
                    name |-> options.name,
                    priority |-> options.priority,
                    compiled_route |-> <<>>,
                    canonical_route_path |-> ""])
  IN [err |-> Validate(r), route |-> r]

\* setPattern that keeps compiled_route and canonical_route_path, so that
\* compile() returns what it compiled before
SetPatternKeepingCompiled(r, pattern) ==
  LET r2 == [r EXCEPT !.pattern = pattern] IN [err |-> Validate(r2), route |-> r2]

\* Route.setPattern: [err, route]
SetPattern(r, pattern) ==
  LET r2 == Compile([r EXCEPT !.pattern = pattern, !.compiled_route = <<>>,
                              !.canonical_route_path = ""])
  IN [err |-> Validate(r2), route |-> r2]

\* Route.setPriority, setMiddleware, setErrorHandlers, setParameterConverters:
\* the field is assigned before validate runs.  [err, route]
SetPriority(r, priority) ==
  LET r2 == [r EXCEPT !.priority = priority] IN [err |-> Validate(r2), route |-> r2]

\* setMiddleware without the call of validate
SetMiddlewareUnchecked(r, middleware) ==
  [err |-> "", route |-> [r EXCEPT !.middleware = middleware]]

SetMiddleware(r, middleware) ==
  LET r2 == [r EXCEPT !.middleware = middleware] IN [err |-> Validate(r2), route |-> r2]

SetErrorHandlers(r, error_handlers) ==
  LET r2 == [r EXCEPT !.error_handlers = error_handlers]
  IN [err |-> Validate(r2), route |-> r2]

SetParameterConverters(r, parameter_converters) ==
  LET r2 == [r EXCEPT !.parameter_converters = parameter_converters]
  IN [err |-> Validate(r2), route |-> r2]

\* isMatch with a matcher that takes no parameter for optional
IsMatchRequiringAll(r, path) ==
  PathToRegexpExec([i \in 1..Len(r.pattern) |-> [r.pattern[i] EXCEPT !.opt = FALSE]], path)

\* Route.isMatch
IsMatch(r, path) == PathToRegexpExec(r.pattern, path)

\* generate that hands no parameters to the generator
GenerateWithoutParameters(r, parameters) == PathToRegexpCompile(r.compiled_route[1], <<>>)

\* Route.generate: the compiled generator is applied, whatever the pattern is now
Generate(r, parameters) == PathToRegexpCompile(r.compiled_route[1], parameters)

\* Route.getRouteDestination: the bound controller method or the action
GetRouteDestination(r) ==
  IF r.controller # "" /\ r.action # "" THEN r.controller \o "." \o r.action
  ELSE IF IsFunction(r.action) THEN r.action
  ELSE "undefined"

\* one call made on an express router: router[fn](pattern, ...handlers),
\* router.param(id, handlers[1]), router.use(handlers[1]) or router.use(router)
RouterCall(fn, pattern, id, handlers, router) ==
  [fn |-> fn, pattern |-> pattern, id |-> id, handlers |-> handlers, router |-> router]

\* the methods.forEach of Route.register: one call per method
MethodCalls(r) ==
  [i \in 1..Len(r.methods) |->
     RouterCall(r.methods[i], r.pattern, "", r.middleware \o <<GetRouteDestination(r)>>, <<>>)]

\* register that puts converters and error handlers on the router it is given
RegisterOnMount(r, express_router) ==
  express_router
    \o [i \in 1..Len(r.parameter_converters) |->
          RouterCall("param", <<>>, r.parameter_converters[i].id,
                     <<r.parameter_converters[i].parameter_converter>>, <<>>)]
    \o MethodCalls(r)
    \o [i \in 1..Len(r.error_handlers) |->
          RouterCall("use", <<>>, "", <<r.error_handlers[i]>>, <<>>)]

\* Route.register: the router as the call leaves it, a router being the
\* sequence of the calls made on it
Register(r, express_router) ==
  IF Len(r.parameter_converters) > 0 \/ Len(r.error_handlers) > 0
  THEN LET sub_router ==
             [i \in 1..Len(r.parameter_converters) |->
                RouterCall("param", <<>>, r.parameter_converters[i].id,
                           <<r.parameter_converters[i].parameter_converter>>, <<>>)]
             \o MethodCalls(r)
             \o [i \in 1..Len(r.error_handlers) |->
                   RouterCall("use", <<>>, "", <<r.error_handlers[i]>>, <<>>)]
       IN Append(express_router, RouterCall("use", <<>>, "", <<>>, sub_router))
  ELSE express_router \o MethodCalls(r)

(***************************************************************************)
(* RouteCollection: the routes object, as the sequence of its entries in   *)
(* key (insertion) order.  The operations that call a Route setter yield   *)
(* [err, coll]: the setter's error stops the loop where it is thrown.      *)
(***************************************************************************)
Entry(key, route) == [key |-> key, route |-> route]

\* the number a key is the canonical numeral of, -1 for any other key: an
\* object lists such keys first and in ascending order, whenever they were
\* created, and the other keys after them in the order of their creation
ArrayIndex(key) ==
  CASE key = "1" -> 1
    [] key = "404" -> 404
    [] OTHER -> -1

\* add that puts every key at the end
CollectionAddAtEnd(coll, route_name, route) ==
  SelectSeq(coll, LAMBDA e : e.key # route_name) \o <<Entry(route_name, route)>>

\* RouteCollection.add: delete the key, then create it.  The collection is the
\* sequence of the entries of this.routes in the order Object.keys lists them
CollectionAdd(coll, route_name, route) ==
  LET others == SelectSeq(coll, LAMBDA e : e.key # route_name)
      k == Cardinality({ i \in 1..Len(others) :
                           /\ ArrayIndex(others[i].key) >= 0
                           /\ ArrayIndex(others[i].key) < ArrayIndex(route_name) })
  IN IF ArrayIndex(route_name) < 0 THEN others \o <<Entry(route_name, route)>>
     ELSE SubSeq(others, 1, k) \o <<Entry(route_name, route)>> \o SubSeq(others, k + 1, Len(others))

\* RouteCollection.get: the entry's route, <<>> when the key is absent
CollectionGet(coll, route_name) ==
  LET i == FirstIndex(coll, LAMBDA e : e.key = route_name)
  IN IF i = 0 THEN <<>> ELSE <<coll[i].route>>

\* RouteCollection.addCollection
RECURSIVE AddCollection(_, _)
AddCollection(coll, other) ==
  IF other = <<>> THEN coll
  ELSE AddCollection(CollectionAdd(coll, Head(other).key, Head(other).route), Tail(other))

\* Object.keys(this.routes).forEach(route_name => ... route.setX(...)) for a
\* setter Set(route) == [err, route]
EachRoute(coll, Set(_)) ==
  LET res == [i \in 1..Len(coll) |-> Set(coll[i].route)]
      k   == FirstIndex(res, LAMBDA x : x.err # "")
  IN [err  |-> IF k = 0 THEN "" ELSE res[k].err,
      coll |-> [i \in 1..Len(coll) |->
                  IF k = 0 \/ i <= k THEN Entry(coll[i].key, res[i].route) ELSE coll[i]]]

\* RouteCollection.prependMiddleware
PrependMiddleware(coll, middleware) ==
  EachRoute(coll, LAMBDA route : SetMiddleware(route, <<middleware>> \o route.middleware))

\* RouteCollection.addMiddleware
AddMiddleware(coll, middleware) ==
  EachRoute(coll, LAMBDA route : SetMiddleware(route, Append(route.middleware, middleware)))

\* addErrorHandler putting the handler in front instead of at the end
PrependErrorHandler(coll, error_handler) ==
  EachRoute(coll, LAMBDA route :
              SetErrorHandlers(route, <<error_handler>> \o route.error_handlers))

\* RouteCollection.addErrorHandler
AddErrorHandler(coll, error_handler) ==
  EachRoute(coll, LAMBDA route :
              SetErrorHandlers(route, Append(route.error_handlers, error_handler)))

\* RouteCollection.addParameterConverter
AddParameterConverter(coll, id, parameter_converter) ==
  EachRoute(coll, LAMBDA route :
              SetParameterConverters(route,
                Append(route.parameter_converters,
                       [parameter_converter |-> parameter_converter, id |-> id])))

\* list.forEach(x => this.op(x)): the operations one after the other, up to
\* the first that throws
RECURSIVE PrependEach(_, _)
PrependEach(coll, middlewares) ==
  IF middlewares = <<>> THEN [err |-> "", coll |-> coll]
  ELSE Then(PrependMiddleware(coll, Head(middlewares)),
            LAMBDA c : PrependEach(c, Tail(middlewares)))

\* prependAllMiddleware without its slice().reverse(): the list prepended
\* front to back
PrependAllMiddlewareUnreversed(coll, middlewares) == PrependEach(coll, middlewares)

\* prependAllMiddleware that stops after the first middleware of the list
PrependAllMiddlewareOnce(coll, middlewares) ==
  IF middlewares = <<>> THEN [err |-> "", coll |-> coll]
  ELSE PrependMiddleware(coll, Head(middlewares))

\* RouteCollection.prependAllMiddleware
PrependAllMiddleware(coll, middlewares) == PrependEach(coll, Reverse(middlewares))

\* RouteCollection.addAllErrorHandlers
RECURSIVE AddAllErrorHandlers(_, _)
AddAllErrorHandlers(coll, error_handlers) ==
  IF error_handlers = <<>> THEN [err |-> "", coll |-> coll]
  ELSE Then(AddErrorHandler(coll, Head(error_handlers)),
            LAMBDA c : AddAllErrorHandlers(c, Tail(error_handlers)))

\* trimStuff(s, '/') of RouteCollection.addPrefix
RECURSIVE TrimLeft(_)
TrimLeft(s) == IF s # <<>> /\ Head(s).t = "slash" THEN TrimLeft(Tail(s)) ELSE s

RECURSIVE TrimRight(_)
TrimRight(s) ==
  IF s # <<>> /\ s[Len(s)].t = "slash" THEN TrimRight(SubSeq(s, 1, Len(s) - 1)) ELSE s

TrimStuff(s) == TrimRight(TrimLeft(s))

\* String.prototype.trim
RECURSIVE Trim(_)
Trim(s) ==
  IF s # <<>> /\ Head(s).t = "space" THEN Trim(Tail(s))
  ELSE IF s # <<>> /\ s[Len(s)].t = "space" THEN Trim(SubSeq(s, 1, Len(s) - 1))
  ELSE s

\* addPrefix that puts the prefix before the patterns as it is given
AddPrefixAsGiven(coll, prefix) ==
  IF prefix = <<>> THEN [err |-> "", coll |-> coll]
  ELSE EachRoute(coll, LAMBDA route : SetPattern(route, <<Slash>> \o prefix \o route.pattern))

\* RouteCollection.addPrefix
AddPrefix(coll, prefix) ==
  IF TrimStuff(Trim(prefix)) = <<>> THEN [err |-> "", coll |-> coll]
  ELSE EachRoute(coll, LAMBDA route :
                   SetPattern(route, <<Slash>> \o TrimStuff(Trim(prefix)) \o route.pattern))

\* RouteCollection.setPriority, the call of RouteCollectionBuilder: Route.setPriority
\* on every route, like the collection's other operations
CollectionSetPriority(coll, priority) ==
  EachRoute(coll, LAMBDA route : SetPriority(route, priority))

(***************************************************************************)
(* Configuration trees.  A key that may be absent, hold one value or hold  *)
(* an array is a record [kind, v]; a node is                               *)
(*   [traits, routes, children, middleware, param, error, is, priority]    *)
(* with routes the method keys (each method at most once) and children the *)
(* keys that start with "/", in declaration order, each holding one node   *)
(* or an array of nodes.                                                   *)
(***************************************************************************)
Absent   == [kind |-> "absent", v |-> <<>>]
One(x)   == [kind |-> "one", v |-> <<x>>]
List(xs) == [kind |-> "list", v |-> xs]

\* a route destination: a bare function, [controller, action, name?], an
\* object with action / controller / name / middleware keys, or anything else
FnDest(f)               == [shape |-> "fn", action |-> f, controller |-> "", name |-> "",
                            middleware |-> Absent]
ArrDest(c, a, n)        == [shape |-> "arr", action |-> a, controller |-> c, name |-> n,
                            middleware |-> Absent]
ObjDest(c, a, n, mw)    == [shape |-> "obj", action |-> a, controller |-> c, name |-> n,
                            middleware |-> mw]
OtherDest               == [shape |-> "other", action |-> "", controller |-> "", name |-> "",
                            middleware |-> Absent]

NoTraits == [has |-> FALSE, v |-> <<>>]
NoIs     == [has |-> FALSE, v |-> <<>>]
NoPriority == [has |-> FALSE, v |-> 0]

EmptyNode ==
  [traits |-> NoTraits, routes |-> <<>>, children |-> <<>>, middleware |-> Absent,
   param |-> Absent, error |-> Absent, is |-> NoIs, priority |-> NoPriority]

Child(key, node)       == [key |-> key, nodes |-> <<node>>]
ChildArray(key, nodes) == [key |-> key, nodes |-> nodes]

(***************************************************************************)
(* RouteBuilder and RouteCollectionBuilder.                                *)
(***************************************************************************)
\* RouteBuilder.with(x): concat(Array.from(arguments)) adds the argument as ONE
\* element, so an array argument becomes a nested array, which is no function
With(middleware, x) ==
  middleware \o <<IF x.kind = "one" THEN x.v[1] ELSE "[array]">>

\* the Route of one method key: RouteBuilder[method]('') ... toAction /
\* toControllerAction.  [err, route]
RouteOf(method, route_destination) ==
  LET options == [name |-> IF route_destination.shape = "fn" THEN "" ELSE route_destination.name,
                  methods |-> <<method>>,
                  action |-> route_destination.action,
                  controller |-> route_destination.controller,
                  middleware |-> IF route_destination.shape = "obj"
                                    /\ route_destination.middleware.kind # "absent"
                                 THEN With(<<>>, route_destination.middleware) ELSE <<>>,
                  parameter_converters |-> <<>>,
                  priority |-> 0]
  IN IF route_destination.shape = "other"
     THEN [err |-> "route_registry_invalid_action", route |-> <<>>]
     ELSE NewRoute(<<>>, options)

\* RouteCollectionBuilder._extractRoutes: [err, coll]
RECURSIVE ExtractRoutesFrom(_, _, _)
ExtractRoutesFrom(methods, current_configuration, this_collection) ==
  IF methods = <<>> THEN [err |-> "", coll |-> this_collection]
  ELSE
    LET i == FirstIndex(current_configuration.routes, LAMBDA d : d.method = Head(methods))
    IN IF i = 0
       THEN ExtractRoutesFrom(Tail(methods), current_configuration, this_collection)
       ELSE LET made == RouteOf(Head(methods), current_configuration.routes[i].dest)
            IN IF made.err # "" THEN [err |-> made.err, coll |-> <<>>]
               ELSE ExtractRoutesFrom(Tail(methods), current_configuration,
                      CollectionAdd(this_collection, made.route.name, made.route))

ExtractRoutes(current_configuration, this_collection) ==
  ExtractRoutesFrom(HTTP_METHODS, current_configuration, this_collection)

\* _extractTraits that takes a traits key wherever it finds one
ExtractTraitsAnywhere(configuration, traits, is_root_configuration) ==
  IF ~configuration.traits.has THEN [err |-> "", traits |-> traits]
  ELSE LET declared == configuration.traits.v
           names == { declared[i].name : i \in 1..Len(declared) }
           last(n) == CHOOSE i \in 1..Len(declared) :
                        declared[i].name = n /\ \A j \in (i+1)..Len(declared) : declared[j].name # n
       IN [err |-> "",
           traits |-> [n \in (DOMAIN traits) \cup names |->
                         IF n \in names
                         THEN [middleware |-> declared[last(n)].middleware,
                               error |-> declared[last(n)].error]
                         ELSE traits[n]]]

\* _extractTraits keeping only a trait's middleware, its error key dropped
ExtractTraitsWithoutError(configuration, traits, is_root_configuration) ==
  IF ~configuration.traits.has THEN [err |-> "", traits |-> traits]
  ELSE IF ~is_root_configuration
    THEN [err |-> "invalid_usage_of_trait_node", traits |-> traits]
  ELSE LET declared == configuration.traits.v
           names == { declared[i].name : i \in 1..Len(declared) }
           last(n) == CHOOSE i \in 1..Len(declared) :
                        declared[i].name = n /\ \A j \in (i+1)..Len(declared) : declared[j].name # n
       IN [err |-> "",
           traits |-> [n \in (DOMAIN traits) \cup names |->
                         IF n \in names
                         THEN [middleware |-> declared[last(n)].middleware,
                               error |-> [kind |-> "absent", v |-> <<>>]]
                         ELSE traits[n]]]

\* RouteCollectionBuilder._extractTraits: [err, traits]
ExtractTraits(configuration, traits, is_root_configuration) ==
  IF ~configuration.traits.has THEN [err |-> "", traits |-> traits]
  ELSE IF ~is_root_configuration
    THEN [err |-> "invalid_usage_of_trait_node", traits |-> traits]
  ELSE LET declared == configuration.traits.v
           names == { declared[i].name : i \in 1..Len(declared) }
           last(n) == CHOOSE i \in 1..Len(declared) :
                        declared[i].name = n /\ \A j \in (i+1)..Len(declared) : declared[j].name # n
       IN [err |-> "",
           traits |-> [n \in (DOMAIN traits) \cup names |->
                         IF n \in names
                         THEN [middleware |-> declared[last(n)].middleware,
                               error |-> declared[last(n)].error]
                         ELSE traits[n]]]

\* RouteCollectionBuilder._extractMiddleware, and the same step for a trait's
\* middleware (absent: nothing; one: prependMiddleware; array: prependAllMiddleware)
ExtractMiddleware(middleware, this_collection) ==
  CASE middleware.kind = "absent" -> [err |-> "", coll |-> this_collection]
    [] middleware.kind = "one"    -> PrependMiddleware(this_collection, middleware.v[1])
    [] middleware.kind = "list"   -> PrependAllMiddleware(this_collection, middleware.v)

\* RouteCollectionBuilder._extractErrorHandlers, and the same step for a trait's
ExtractErrorHandlers(error, this_collection) ==
  CASE error.kind = "absent" -> [err |-> "", coll |-> this_collection]
    [] error.kind = "one"    -> AddErrorHandler(this_collection, error.v[1])
    [] error.kind = "list"   -> AddAllErrorHandlers(this_collection, error.v)

\* RouteCollectionBuilder._extractParameterConverters for entries [id, function]
RECURSIVE AddParameterConverters(_, _)
AddParameterConverters(params, this_collection) ==
  IF params = <<>> THEN [err |-> "", coll |-> this_collection]
  ELSE Then(AddParameterConverter(this_collection, Head(params).id,
                                  Head(params).parameter_converter),
            LAMBDA c : AddParameterConverters(Tail(params), c))

ExtractParameterConverters(param, this_collection) ==
  AddParameterConverters(param.v, this_collection)

\* _extractInheritedTraits with a trait's middleware added behind the
\* middleware the routes already have
RECURSIVE InheritTraitsBehind(_, _, _)
InheritTraitsBehind(trait_names, traits, this_collection) ==
  IF trait_names = <<>> THEN [err |-> "", coll |-> this_collection]
  ELSE IF Head(trait_names) \notin DOMAIN traits
    THEN [err |-> "invalid_trait_requested", coll |-> <<>>]
  ELSE
    LET trait == traits[Head(trait_names)]
        behind(coll, mw) ==
          EachRoute(coll, LAMBDA route : SetMiddleware(route, route.middleware \o mw))
        m == behind(this_collection, trait.middleware.v)
        e == Then(m, LAMBDA c : ExtractErrorHandlers(trait.error, c))
    IN Then(e, LAMBDA c : InheritTraitsBehind(Tail(trait_names), traits, c))

\* _extractInheritedTraits that passes over a name it does not know
RECURSIVE InheritTraitsKnown(_, _, _)
InheritTraitsKnown(trait_names, traits, this_collection) ==
  IF trait_names = <<>> THEN [err |-> "", coll |-> this_collection]
  ELSE IF Head(trait_names) \notin DOMAIN traits
    THEN InheritTraitsKnown(Tail(trait_names), traits, this_collection)
  ELSE
    LET trait == traits[Head(trait_names)]
        m == ExtractMiddleware(trait.middleware, this_collection)
        e == Then(m, LAMBDA c : ExtractErrorHandlers(trait.error, c))
    IN Then(e, LAMBDA c : InheritTraitsKnown(Tail(trait_names), traits, c))

\* RouteCollectionBuilder._extractInheritedTraits
RECURSIVE InheritTraits(_, _, _)
InheritTraits(trait_names, traits, this_collection) ==
  IF trait_names = <<>> THEN [err |-> "", coll |-> this_collection]
  ELSE IF Head(trait_names) \notin DOMAIN traits
    THEN [err |-> "invalid_trait_requested", coll |-> <<>>]
  ELSE
    LET trait == traits[Head(trait_names)]
        m == ExtractMiddleware(trait.middleware, this_collection)
        e == Then(m, LAMBDA c : ExtractErrorHandlers(trait.error, c))
    IN Then(e, LAMBDA c : InheritTraits(Tail(trait_names), traits, c))

ExtractInheritedTraits(current_configuration, traits, this_collection) ==
  IF ~current_configuration.is.has THEN [err |-> "", coll |-> this_collection]
  ELSE InheritTraits(current_configuration.is.v, traits, this_collection)

\* the (key, node) pairs _extractSubRoutes recurses into, in order
SubConfigurations(current_configuration) ==
  LET cs == current_configuration.children
  IN Flatten([i \in 1..Len(cs) |->
                [j \in 1..Len(cs[i].nodes) |-> [key |-> cs[i].key, node |-> cs[i].nodes[j]]]])

\* RouteCollectionBuilder._recursiveRouteBuilder: [err, coll], coll being
\* this_collection, which the caller adds to the parent collection
RECURSIVE RecursiveRouteBuilder(_, _, _, _)
RECURSIVE ExtractSubRoutes(_, _, _)

\* _extractSubRoutes with the middleware of a node put on the routes collected
\* so far, those of the nodes before it among them
RECURSIVE ExtractSubRoutesOnParent(_, _, _)
ExtractSubRoutesOnParent(subs, traits, this_collection) ==
  IF subs = <<>> THEN [err |-> "", coll |-> this_collection]
  ELSE Then(RecursiveRouteBuilder([Head(subs).node EXCEPT !.middleware = Absent],
                                  Head(subs).key, traits, FALSE),
            LAMBDA sub :
              Then(ExtractMiddleware(Head(subs).node.middleware,
                                     AddCollection(this_collection, sub)),
                   LAMBDA c : ExtractSubRoutesOnParent(Tail(subs), traits, c)))

ExtractSubRoutes(subs, traits, this_collection) ==
  IF subs = <<>> THEN [err |-> "", coll |-> this_collection]
  ELSE Then(RecursiveRouteBuilder(Head(subs).node, Head(subs).key, traits, FALSE),
            LAMBDA sub : ExtractSubRoutes(Tail(subs), traits,
                                          AddCollection(this_collection, sub)))

RecursiveRouteBuilder(current_configuration, prefix, traits, is_root_configuration) ==
  LET t  == ExtractTraits(current_configuration, traits, is_root_configuration)
      s1 == ExtractRoutes(current_configuration, <<>>)
      s2 == Then(s1, LAMBDA c :
                   ExtractSubRoutes(SubConfigurations(current_configuration), t.traits, c))
      s3 == Then(s2, LAMBDA c : AddPrefix(c, prefix))
      s4 == Then(s3, LAMBDA c :
                   IF current_configuration.priority.has
                   THEN CollectionSetPriority(c, current_configuration.priority.v)
                   ELSE [err |-> "", coll |-> c])
      s5 == Then(s4, LAMBDA c : ExtractMiddleware(current_configuration.middleware, c))
      s6 == Then(s5, LAMBDA c : ExtractParameterConverters(current_configuration.param, c))
      s7 == Then(s6, LAMBDA c : ExtractErrorHandlers(current_configuration.error, c))
      s8 == Then(s7, LAMBDA c : ExtractInheritedTraits(current_configuration, t.traits, c))
  IN IF t.err # "" THEN [err |-> t.err, coll |-> <<>>] ELSE Thrown(s8)

\* RouteCollectionBuilder.build on a fresh builder: [err, coll]
Build(configuration) ==
  Then(RecursiveRouteBuilder(configuration, <<>>, <<>>, TRUE),
       LAMBDA this_collection : [err |-> "", coll |-> AddCollection(<<>>, this_collection)])

(***************************************************************************)
(* The configurations the builder is run on: chains root - child - ... of  *)
(* MaxDepth levels below the root, every level with its own middleware,    *)
(* error and is keys and a named get route, the root with or without the   *)
(* traits map.                                                             *)
(***************************************************************************)
KeyAt(d) ==
  CASE d = 1 -> <<Slash, Lit("a")>>
    [] d = 2 -> <<Slash, Lit("b")>>
    [] d = 3 -> <<Slash, Lit("c")>>
    [] OTHER -> <<Slash, Lit("d")>>

RouteNameAt(d) ==
  CASE d = 0 -> "r0" [] d = 1 -> "r1" [] d = 2 -> "r2" [] d = 3 -> "r3" [] OTHER -> "rn"

\* the error handler a level declares as its own: a different one per level
OwnError(d) ==
  CASE d = 0 -> "e1" [] d = 1 -> "e2" [] d = 2 -> "e3" [] d = 3 -> "e6" [] OTHER -> "e7"

IsTraits(names) == [has |-> TRUE, v |-> names]

\* what a level at depth d declares: middleware, error and is, each absent,
\* one value or an array
LevelOpts(d) ==
  { [middleware |-> Absent,                error |-> Absent,                       is |-> NoIs],
    [middleware |-> One("m1"),             error |-> One(OwnError(d)),             is |-> NoIs],
    [middleware |-> List(<<"m2", "m3">>),  error |-> List(<<OwnError(d), "e8">>),  is |-> NoIs],
    [middleware |-> List(<<"m2", "m3">>),  error |-> Absent,                       is |-> NoIs],
    [middleware |-> Absent,                error |-> One(OwnError(d)),             is |-> NoIs],
    [middleware |-> One("m1"),             error |-> List(<<OwnError(d), "e8">>),  is |-> IsTraits(<<"t1">>)],
    [middleware |-> List(<<"m2", "m3">>),  error |-> Absent,                       is |-> IsTraits(<<"t1">>)],
    [middleware |-> Absent,                error |-> Absent,                       is |-> IsTraits(<<"t1", "t2">>)],
    [middleware |-> List(<<"m2", "m3">>),  error |-> One(OwnError(d)),             is |-> IsTraits(<<"t2", "t1">>)] }

DeclaredTraits ==
  [has |-> TRUE,
   v |-> << [name |-> "t1", middleware |-> List(<<"m4", "m5">>), error |-> List(<<"e4", "e5">>)],
            [name |-> "t2", middleware |-> One("m6"), error |-> One("e9")] >>]

TraitOpts == {NoTraits, DeclaredTraits}

Decl(method, dest) == [method |-> method, dest |-> dest]

LeafRoutes(d) ==
  { << Decl("get", ObjDest("", "aaaa", RouteNameAt(d), Absent)) >>,
    << Decl("get", ObjDest("", "aaaa", RouteNameAt(d), One("m6"))) >>,
    << Decl("get", ObjDest("", "aaaa", RouteNameAt(d), List(<<"m5", "m6">>))) >>,
    << Decl("post", FnDest("bbbb")), Decl("get", FnDest("thisThatAction")) >> }

WithLevel(node, a) ==
  [node EXCEPT !.middleware = a.middleware, !.error = a.error, !.is = a.is]

RECURSIVE ChainNodes(_)
ChainNodes(d) ==
  IF d >= MaxDepth
  THEN { WithLevel([EmptyNode EXCEPT !.routes = rs], a) : rs \in LeafRoutes(d), a \in LevelOpts(d) }
  ELSE { WithLevel([EmptyNode EXCEPT
                      !.routes = << Decl("get", ObjDest("", "aaaa", RouteNameAt(d), Absent)) >>,
                      !.children = << Child(KeyAt(d + 1), c) >>], a) :
           c \in ChainNodes(d + 1), a \in LevelOpts(d) }

ChainConfigs == { [n EXCEPT !.traits = t] : n \in ChainNodes(0), t \in TraitOpts }

BuildConfigs == ChainConfigs

(***************************************************************************)
(* State.  routes, routes_by_name and routes_by_canonical_path are the     *)
(* RouteRegistry's fields; result is what the last call returned or threw; *)
(* cfg is the configuration given to the builder and built what build()    *)
(* returned for it; this_route is the Route object the Route-level calls    *)
(* are made on (<<>> when there is none) and mount the calls that          *)
(* Route.register has made on the express router it was given.             *)
(***************************************************************************)
NoResult == [op |-> "none", status |-> "", name |-> "", route |-> <<>>, path |-> <<>>,
             parameters |-> <<>>, value |-> <<>>]
NotBuilt == [err |-> "not_built", coll |-> <<>>]

\* no Route object under test, nothing registered on a router
NoRoute ==
  /\ this_route = <<>>
  /\ mount = <<>>

EmptyRegistry ==
  /\ routes = <<>>
  /\ routes_by_name = <<>>
  /\ routes_by_canonical_path = <<>>
  /\ result = NoResult

(***************************************************************************)
(* SpecBuild: RouteCollectionBuilder.build on every configuration.         *)
(***************************************************************************)
InitBuild ==
  /\ EmptyRegistry
  /\ cfg \in BuildConfigs
  /\ built = NotBuilt
  /\ NoRoute

BuildStep ==
  /\ built = NotBuilt
  /\ built' = Build(cfg)
  /\ UNCHANGED <<routes, routes_by_name, routes_by_canonical_path, result, cfg, this_route, mount>>

NextBuild == BuildStep

SpecBuild == InitBuild /\ [][NextBuild]_vars

(***************************************************************************)
(* RouteRegistry.  routes_by_name and routes_by_canonical_path are         *)
(* functions from the keys present to the routes stored under them.        *)
(***************************************************************************)
Put(f, k, v) == [x \in (DOMAIN f) \cup {k} |-> IF x = k THEN v ELSE f[x]]

MethodPath(method, canonical_path) == method \o " " \o canonical_path

\* the methods.forEach of RouteRegistry.add: every key is checked and then
\* stored before the next one is looked at.  [err, index]
RECURSIVE IndexMethodPaths(_, _, _)
IndexMethodPaths(index, methods, route) ==
  IF methods = <<>> THEN [err |-> "", index |-> index]
  ELSE LET method_path == MethodPath(Head(methods), route.canonical_route_path) IN
       IF method_path \in DOMAIN index
       THEN [err |-> "route_registry_path_collision", index |-> index]
       ELSE IndexMethodPaths(Put(index, method_path, route), Tail(methods), route)

\* add with the name looked up before the method paths are
RegistryAddNameFirst(reg, route_name, route) ==
  LET p == IndexMethodPaths(reg.routes_by_canonical_path, route.methods, route)
      indexed == [reg EXCEPT !.routes_by_canonical_path = p.index]
  IN IF route_name \in DOMAIN reg.routes_by_name
       THEN [err |-> "route_registry_name_collision", reg |-> reg]
     ELSE IF p.err # "" THEN [err |-> p.err, reg |-> indexed]
     ELSE [err |-> "",
           reg |-> [indexed EXCEPT !.routes_by_name = Put(reg.routes_by_name, route_name, route),
                                   !.routes = Append(reg.routes, route)]]

\* add without the name lookup: a second route takes the name over
RegistryAddOverwriting(reg, route_name, route) ==
  LET p == IndexMethodPaths(reg.routes_by_canonical_path, route.methods, route)
      indexed == [reg EXCEPT !.routes_by_canonical_path = p.index]
  IN IF p.err # "" THEN [err |-> p.err, reg |-> indexed]
     ELSE [err |-> "",
           reg |-> [indexed EXCEPT !.routes_by_name = Put(reg.routes_by_name, route_name, route),
                                   !.routes = Append(reg.routes, route)]]

\* add that checks the method paths and stores none of them
RegistryAddUnindexed(reg, route_name, route) ==
  LET p == IndexMethodPaths(reg.routes_by_canonical_path, route.methods, route)
  IN IF p.err # "" THEN [err |-> p.err, reg |-> reg]
     ELSE IF route_name \in DOMAIN reg.routes_by_name
       THEN [err |-> "route_registry_name_collision", reg |-> reg]
     ELSE [err |-> "",
           reg |-> [reg EXCEPT !.routes_by_name = Put(reg.routes_by_name, route_name, route),
                               !.routes = Append(reg.routes, route)]]

\* RouteRegistry.add on the registry reg: [err, reg], reg being the registry
\* as the call leaves it, thrown or not
RegistryAdd(reg, route_name, route) ==
  LET p == IndexMethodPaths(reg.routes_by_canonical_path, route.methods, route)
      indexed == [reg EXCEPT !.routes_by_canonical_path = p.index]
  IN IF p.err # "" THEN [err |-> p.err, reg |-> indexed]
     ELSE IF route_name \in DOMAIN reg.routes_by_name
       THEN [err |-> "route_registry_name_collision", reg |-> indexed]
     ELSE [err |-> "",
           reg |-> [indexed EXCEPT !.routes_by_name = Put(reg.routes_by_name, route_name, route),
                                   !.routes = Append(reg.routes, route)]]

\* RouteRegistry.addRoute
RegistryAddRoute(reg, route) == RegistryAdd(reg, route.name, route)

\* the forEach of RouteRegistry.routeBuilder over the built collection: addRoute
\* route after route up to the first that throws; log lists the calls made
RECURSIVE AddRoutes(_, _, _)
AddRoutes(reg, entries, log) ==
  IF entries = <<>> THEN [err |-> "", reg |-> reg, log |-> log]
  ELSE LET route == Head(entries).route
           a     == RegistryAddRoute(reg, route)
           call  == [name |-> route.name, route |-> route, status |-> a.err]
       IN IF a.err # "" THEN [err |-> a.err, reg |-> a.reg, log |-> Append(log, call)]
          ELSE AddRoutes(a.reg, Tail(entries), Append(log, call))

\* match taking the last route that matches
RegistryMatchLast(rs, path) ==
  LET k == FirstIndex(Reverse(rs), LAMBDA route : IsMatch(route, path))
  IN IF k = 0 THEN <<>> ELSE <<Reverse(rs)[k]>>

\* RouteRegistry.match: Array.prototype.find, <<>> for undefined
RegistryMatch(rs, path) ==
  LET k == FirstIndex(rs, LAMBDA route : IsMatch(route, path))
  IN IF k = 0 THEN <<>> ELSE <<rs[k]>>

\* generate that drops the parameters it is given
RegistryGenerateBare(by_name, route_name, parameters) ==
  IF route_name \notin DOMAIN by_name
  THEN [err |-> "route_registry_generate_no_such_route", path |-> <<>>]
  ELSE Generate(by_name[route_name], <<>>)

\* RouteRegistry.generate: [err, path]
RegistryGenerate(by_name, route_name, parameters) ==
  IF route_name \notin DOMAIN by_name
  THEN [err |-> "route_registry_generate_no_such_route", path |-> <<>>]
  ELSE Generate(by_name[route_name], parameters)

(***************************************************************************)
(* The calls made on one registry.                                         *)
(***************************************************************************)
Options(methods, action, name) ==
  [action |-> action, methods |-> methods, controller |-> "", middleware |-> <<>>,
   parameter_converters |-> <<>>, name |-> name, priority |-> 0]

\* the routes handed to add and addRoute: get /foo, post /foo, one route for
\* post and get on /foo, and /foo/:id(\d+) under the first one's action
DirectRoutes ==
  { NewRoute(<<Slash, Lit("foo")>>, Options(<<"get">>, "aaaa", "")).route,
    NewRoute(<<Slash, Lit("foo")>>, Options(<<"post">>, "bbbb", "")).route,
    NewRoute(<<Slash, Lit("foo")>>, Options(<<"post", "get">>, "zzzz", "")).route,
    NewRoute(<<Slash, Lit("foo"), Slash, ParRe("id", "\\d+")>>,
             Options(<<"get">>, "aaaa", "")).route }

AddNames == {"aaaa"}

LeafNode(rs) == [EmptyNode EXCEPT !.routes = rs]

\* the configurations handed to routeBuilder: get and post on /foo, get on
\* /foo under another action, two wildcards the second with a priority, and a
\* node that names a trait nobody declared
RegistryConfigs ==
  { [EmptyNode EXCEPT !.children =
       << Child(<<Slash, Lit("foo")>>,
                LeafNode(<< Decl("get", FnDest("aaaa")), Decl("post", FnDest("bbbb")) >>)) >>],
    [EmptyNode EXCEPT !.children =
       << Child(<<Slash, Lit("foo")>>,
                LeafNode(<< Decl("get", FnDest("thisThatAction")) >>)) >>],
    [EmptyNode EXCEPT !.children =
       << Child(<<Slash, Par("wildcard1")>>, LeafNode(<< Decl("get", FnDest("zzzz")) >>)),
          Child(<<Slash, Par("wildcard2")>>,
                [LeafNode(<< Decl("get", FnDest("aaaa")) >>)
                   EXCEPT !.priority = [has |-> TRUE, v |-> 99]]) >>],
    [EmptyNode EXCEPT !.is = IsTraits(<<"t1">>)] }

RequestPaths ==
  { <<Slash, Lit("foo")>>, <<Slash, Lit("aaa")>>, <<Slash, Lit("foo"), Slash, Lit("3")>> }

GenerateNames == {"aaaa", "bbbb", "missing"}

GenerateParameters == { <<>>, [id |-> "3"], [id |-> "x"] }

Registry ==
  [routes |-> routes, routes_by_name |-> routes_by_name,
   routes_by_canonical_path |-> routes_by_canonical_path]

Becomes(reg) ==
  /\ routes' = reg.routes
  /\ routes_by_name' = reg.routes_by_name
  /\ routes_by_canonical_path' = reg.routes_by_canonical_path

Init ==
  /\ EmptyRegistry
  /\ cfg = EmptyNode
  /\ built = NotBuilt
  /\ NoRoute

\* registry.add(route_name, route)
Add(route_name, route) ==
  /\ Len(routes) < MaxRoutes
  /\ \E a \in {RegistryAdd(Registry, route_name, route)} :
     /\ Becomes(a.reg)
     /\ result' = [NoResult EXCEPT !.op = "add", !.status = a.err, !.name = route_name,
                                   !.route = <<route>>]
  /\ UNCHANGED <<cfg, built, this_route, mount>>

\* registry.addRoute(route)
AddRoute(route) ==
  /\ Len(routes) < MaxRoutes
  /\ \E a \in {RegistryAddRoute(Registry, route)} :
     /\ Becomes(a.reg)
     /\ result' = [NoResult EXCEPT !.op = "addRoute", !.status = a.err, !.name = route.name,
                                   !.route = <<route>>]
  /\ UNCHANGED <<cfg, built, this_route, mount>>

\* routeBuilder that empties the registry when the build fails
RouteBuilderResetting(configuration) ==
  /\ Len(routes) < MaxRoutes
  /\ UNCHANGED <<cfg, built, this_route, mount>>
  /\ \E b \in {Build(configuration)} :
       IF b.err # ""
       THEN /\ routes' = <<>>
            /\ routes_by_name' = <<>>
            /\ routes_by_canonical_path' = <<>>
            /\ result' = [NoResult EXCEPT !.op = "routeBuilder", !.status = b.err]
       ELSE \E r \in {AddRoutes(Registry, b.coll, <<>>)} :
              /\ Becomes(r.reg)
              /\ result' = [NoResult EXCEPT !.op = "routeBuilder", !.status = r.err,
                                            !.value = r.log]

\* registry.routeBuilder(configuration): the collection is built, then its
\* routes are added one by one; what was added before a throw stays
RouteBuilder(configuration) ==
  /\ Len(routes) < MaxRoutes
  /\ UNCHANGED <<cfg, built, this_route, mount>>
  /\ \E b \in {Build(configuration)} :
       IF b.err # ""
       THEN /\ UNCHANGED <<routes, routes_by_name, routes_by_canonical_path>>
            /\ result' = [NoResult EXCEPT !.op = "routeBuilder", !.status = b.err]
       ELSE \E r \in {AddRoutes(Registry, b.coll, <<>>)} :
              /\ Becomes(r.reg)
              /\ result' = [NoResult EXCEPT !.op = "routeBuilder", !.status = r.err,
                                            !.value = r.log]

\* match that moves the route it found to the front of the list
MatchMovingToFront(path) ==
  /\ result' = [NoResult EXCEPT !.op = "match", !.path = path,
                                !.value = RegistryMatch(routes, path)]
  /\ routes' = RegistryMatch(routes, path)
                 \o SelectSeq(routes, LAMBDA route : <<route>> # RegistryMatch(routes, path))
  /\ UNCHANGED <<routes_by_name, routes_by_canonical_path, cfg, built, this_route, mount>>

\* registry.match(path)
Match(path) ==
  /\ result' = [NoResult EXCEPT !.op = "match", !.path = path,
                                !.value = RegistryMatch(routes, path)]
  /\ UNCHANGED <<routes, routes_by_name, routes_by_canonical_path, cfg, built,
               this_route, mount>>

\* registry.generate(route_name, parameters)
GenerateCall(route_name, parameters) ==
  /\ \E g \in {RegistryGenerate(routes_by_name, route_name, parameters)} :
     result' = [NoResult EXCEPT !.op = "generate", !.status = g.err, !.name = route_name,
                                !.parameters = parameters, !.value = g.path]
  /\ UNCHANGED <<routes, routes_by_name, routes_by_canonical_path, cfg, built,
               this_route, mount>>

\* registry.getAll()
GetAll ==
  /\ result' = [NoResult EXCEPT !.op = "getAll", !.value = routes]
  /\ UNCHANGED <<routes, routes_by_name, routes_by_canonical_path, cfg, built,
               this_route, mount>>

Next ==
  \/ \E n \in AddNames, r \in DirectRoutes : Add(n, r)
  \/ \E r \in DirectRoutes : AddRoute(r)
  \/ \E c \in RegistryConfigs : RouteBuilder(c)
  \/ \E p \in RequestPaths : Match(p)
  \/ \E n \in GenerateNames, ps \in GenerateParameters : GenerateCall(n, ps)
  \/ GetAll

Spec == Init /\ [][Next]_vars

(***************************************************************************)
(* SpecRoute: the calls made on one Route object: generate, isMatch, the   *)
(* setters and register.                                                   *)
(***************************************************************************)
\* /foo, /foo/:id/bar/:baz, /foo/:id/bar/:baz?, /foo/:id(\d+), /foo/:id,
\* /foo/(\d+)/bar/(\d+)? and /:id(\d+)/:baz
RoutePatterns ==
  { <<Slash, Lit("foo")>>,
    <<Slash, Lit("foo"), Slash, Par("id"), Slash, Lit("bar"), Slash, Par("baz")>>,
    <<Slash, Lit("foo"), Slash, Par("id"), Slash, Lit("bar"), Slash, ParOpt("baz")>>,
    <<Slash, Lit("foo"), Slash, ParRe("id", "\\d+")>>,
    <<Slash, Lit("foo"), Slash, Par("id")>>,
    <<Slash, Lit("foo"), Slash, ParRe("", "\\d+"), Slash, Lit("bar"), Slash,
      [ParRe("", "\\d+") EXCEPT !.opt = TRUE]>>,
    <<Slash, ParRe("id", "\\d+"), Slash, Par("baz")>> }

\* the options a Route under test is constructed with
RouteOptions ==
  { Options(<<"get">>, "aaaa", ""),
    [Options(<<"post", "get">>, "", "") EXCEPT
       !.controller = "Controller1", !.action = "c_action1",
       !.middleware = <<"m1", "m2">>] }

\* the Route objects whose constructor returns
NewRoutes ==
  { n.route : n \in { m \in { NewRoute(p, o) : p \in RoutePatterns, o \in RouteOptions } :
                        m.err = "" } }

\* parameter mappings handed to generate; "x" is no number
RouteParameters ==
  { <<>>, [id |-> "3"], [id |-> "x"], [baz |-> "x"], [id |-> "3", baz |-> "x"],
    [id |-> "x", baz |-> "1"], ("0" :> "1"), ("0" :> "1") @@ ("1" :> "3"),
    ("0" :> "1") @@ ("1" :> "x") }

\* paths handed to isMatch
RoutePaths ==
  { <<Slash, Lit("foo")>>, <<Slash, Lit("foo"), Slash, Lit("3")>>,
    <<Slash, Lit("foo"), Slash, Lit("x")>>,
    <<Slash, Lit("foo"), Slash, Lit("3"), Slash, Lit("bar")>>,
    <<Slash, Lit("3"), Slash, Lit("x")>> }

\* what the setters are called with: lists that pass validation and lists
\* that do not (a function of two arguments, a value that is no function)
SetterValues ==
  [middleware |-> { <<"m3">>, <<"twoArgs">>, <<"m1", "notAFunction">> },
   error_handlers |-> { <<>>, <<"e1", "e2">>, <<"m1">> },
   parameter_converters |-> { <<>>, << [id |-> "id", parameter_converter |-> "pc2"] >>,
                              << [id |-> "id", parameter_converter |-> "m1"] >> },
   priority |-> { 5 },
   pattern |-> { <<Slash, Lit("foo")>>, <<Slash, Lit("foo"), Slash, Par("id")>> }]

InitRoute ==
  /\ EmptyRegistry
  /\ cfg = EmptyNode
  /\ built = NotBuilt
  /\ this_route \in { <<r>> : r \in NewRoutes }
  /\ mount = <<>>

\* what a setter call leaves: the route as assigned, the error it threw
SetterLeaves(op, s) ==
  /\ this_route' = <<s.route>>
  /\ result' = [NoResult EXCEPT !.op = op, !.status = s.err]
  /\ UNCHANGED <<routes, routes_by_name, routes_by_canonical_path, cfg, built, mount>>

\* route.generate(parameters)
GenerateStep(parameters) ==
  /\ \E g \in {Generate(this_route[1], parameters)} :
       result' = [NoResult EXCEPT !.op = "route.generate", !.status = g.err,
                                  !.parameters = parameters, !.value = g.path]
  /\ UNCHANGED <<routes, routes_by_name, routes_by_canonical_path, cfg, built,
                 this_route, mount>>

\* route.isMatch(path)
IsMatchStep(path) ==
  /\ result' = [NoResult EXCEPT !.op = "route.isMatch", !.path = path,
                                !.value = <<IsMatch(this_route[1], path)>>]
  /\ UNCHANGED <<routes, routes_by_name, routes_by_canonical_path, cfg, built,
                 this_route, mount>>

\* the setters are called while the route is being configured, before it is
\* registered on a router
SetMiddlewareStep(middleware) ==
  /\ mount = <<>>
  /\ \E s \in {SetMiddleware(this_route[1], middleware)} : SetterLeaves("setMiddleware", s)

SetErrorHandlersStep(error_handlers) ==
  /\ mount = <<>>
  /\ \E s \in {SetErrorHandlers(this_route[1], error_handlers)} :
       SetterLeaves("setErrorHandlers", s)

SetParameterConvertersStep(parameter_converters) ==
  /\ mount = <<>>
  /\ \E s \in {SetParameterConverters(this_route[1], parameter_converters)} :
       SetterLeaves("setParameterConverters", s)

SetPriorityStep(priority) ==
  /\ mount = <<>>
  /\ \E s \in {SetPriority(this_route[1], priority)} : SetterLeaves("setPriority", s)

SetPatternStep(pattern) ==
  /\ mount = <<>>
  /\ \E s \in {SetPattern(this_route[1], pattern)} : SetterLeaves("setPattern", s)

\* route.register(express_router) on a router nothing is registered on yet
RegisterStep ==
  /\ mount = <<>>
  /\ mount' = Register(this_route[1], mount)
  /\ result' = [NoResult EXCEPT !.op = "route.register"]
  /\ UNCHANGED <<routes, routes_by_name, routes_by_canonical_path, cfg, built, this_route>>

NextRoute ==
  \/ \E ps \in RouteParameters : GenerateStep(ps)
  \/ \E p \in RoutePaths : IsMatchStep(p)
  \/ \E m \in SetterValues.middleware : SetMiddlewareStep(m)
  \/ \E e \in SetterValues.error_handlers : SetErrorHandlersStep(e)
  \/ \E c \in SetterValues.parameter_converters : SetParameterConvertersStep(c)
  \/ \E p \in SetterValues.priority : SetPriorityStep(p)
  \/ \E p \in SetterValues.pattern : SetPatternStep(p)
  \/ RegisterStep

SpecRoute == InitRoute /\ [][NextRoute]_vars

(***************************************************************************)
(* SpecCanonical: Route objects are constructed and added to one registry  *)
(* under a name.                                                           *)
(***************************************************************************)
\* /foo/:id(\d+), /foo/:id, /foo/:slug(\d+) and /foo/(\d+)
CanonicalPatterns ==
  { <<Slash, Lit("foo"), Slash, ParRe("id", "\\d+")>>,
    <<Slash, Lit("foo"), Slash, Par("id")>>,
    <<Slash, Lit("foo"), Slash, ParRe("slug", "\\d+")>>,
    <<Slash, Lit("foo"), Slash, ParRe("", "\\d+")>> }

CanonicalOptions ==
  { Options(<<"get">>, "aaaa", ""), Options(<<"post">>, "bbbb", "") }

CanonicalNames == {"first", "second"}

InitCanonical ==
  /\ EmptyRegistry
  /\ cfg = EmptyNode
  /\ built = NotBuilt
  /\ this_route = <<>>
  /\ mount = <<>>

\* new Route(route_pattern, options): the object the next add is given
NewRouteStep(route_pattern, options) ==
  /\ \E n \in {NewRoute(route_pattern, options)} :
       /\ n.err = ""
       /\ this_route' = <<n.route>>
       /\ result' = [NoResult EXCEPT !.op = "new Route", !.route = <<n.route>>]
  /\ UNCHANGED <<routes, routes_by_name, routes_by_canonical_path, cfg, built, mount>>

\* registry.add(route_name, route) with the route constructed last
AddThisRoute(route_name) ==
  /\ this_route # <<>>
  /\ Len(routes) < MaxRoutes - 1
  /\ Cardinality(DOMAIN routes_by_canonical_path) < MaxRoutes
  /\ \E a \in {RegistryAdd(Registry, route_name, this_route[1])} :
       /\ Becomes(a.reg)
       /\ result' = [NoResult EXCEPT !.op = "add", !.status = a.err, !.name = route_name,
                                     !.route = this_route]
  /\ UNCHANGED <<cfg, built, this_route, mount>>

NextCanonical ==
  \/ \E p \in CanonicalPatterns, o \in CanonicalOptions : NewRouteStep(p, o)
  \/ \E n \in CanonicalNames : AddThisRoute(n)

SpecCanonical == InitCanonical /\ [][NextCanonical]_vars

(***************************************************************************)
(* SpecTree: routeBuilder and build on configuration trees with sibling    *)
(* nodes: two prefix keys under the root, the second one holding a node or *)
(* an array of two nodes.  The node in slot 1 is under the first key, the  *)
(* nodes in slots 2 and 3 under the second.                                *)
(***************************************************************************)
\* what the node in a slot declares as its own, different from slot to slot
Slot(s) ==
  [action     |-> CASE s = 1 -> "aaaa" [] s = 2 -> "bbbb" [] OTHER -> "zzzz",
   method     |-> IF s = 3 THEN "post" ELSE "get",
   middleware |-> CASE s = 1 -> "m1" [] s = 2 -> "m2" [] OTHER -> "m3",
   error      |-> CASE s = 1 -> "e1" [] s = 2 -> "e2" [] OTHER -> "e3",
   param      |-> CASE s = 1 -> [id |-> "id", parameter_converter |-> "pc1"]
                    [] s = 2 -> [id |-> "id", parameter_converter |-> "pc2"]
                    [] OTHER -> [id |-> "slug", parameter_converter |-> "pc1"],
   trait      |-> IF s = 2 THEN "t2" ELSE "t1"]

SlotRoute(s) == [EmptyNode EXCEPT !.routes = << Decl(Slot(s).method, FnDest(Slot(s).action)) >>]

\* a node with a route and nothing else
PlainNode(s) == SlotRoute(s)

\* a node with a route that declares middleware, param, error and is
FullNode(s) ==
  [SlotRoute(s) EXCEPT !.middleware = One(Slot(s).middleware),
                       !.param = List(<<Slot(s).param>>),
                       !.error = One(Slot(s).error),
                       !.is = IsTraits(<<Slot(s).trait>>)]

\* nodes whose middleware is a function of two arguments, or has an entry
\* that is no function, with a route and without one
InvalidMiddlewareNodes(s) ==
  { [SlotRoute(s) EXCEPT !.middleware = One("twoArgs")],
    [SlotRoute(s) EXCEPT !.middleware = List(<<Slot(s).middleware, "notAFunction">>)],
    [EmptyNode EXCEPT !.middleware = One("notAFunction")] }

\* nodes that ask for a trait no configuration declares, the second one
\* after a known trait and with middleware of two arguments
UnknownTraitNodes(s) ==
  { [SlotRoute(s) EXCEPT !.is = IsTraits(<<"t3">>)],
    [SlotRoute(s) EXCEPT !.middleware = One("twoArgs"),
                         !.is = IsTraits(<<Slot(s).trait, "t3">>)] }

\* a node below the root with a traits key
TraitsNode(s) == [SlotRoute(s) EXCEPT !.traits = DeclaredTraits]

\* a node without routes over a /c node that has one
DeepNode(s) ==
  [EmptyNode EXCEPT
     !.middleware = One(Slot(s).middleware),
     !.error = One(Slot(s).error),
     !.children = << Child(<<Slash, Lit("c"), Slash>>,
                           [EmptyNode EXCEPT
                              !.routes = << Decl("get", FnDest("thisThatAction")) >>,
                              !.error = One("e6")]) >>]

SlotNodes(s) ==
  {PlainNode(s), FullNode(s), TraitsNode(s)} \cup UnknownTraitNodes(s)
    \cup InvalidMiddlewareNodes(s)

\* the first prefix key: /a and /
FirstKeys == { <<Slash, Lit("a")>>, <<Slash>> }

SecondKey == <<Slash, Lit("b")>>

TreeConfigs ==
  { [EmptyNode EXCEPT !.traits = t, !.children = << Child(k, x), second >>] :
      t \in TraitOpts, k \in FirstKeys, x \in SlotNodes(1) \cup {DeepNode(1)},
      second \in { Child(SecondKey, y) : y \in SlotNodes(2) }
                 \cup { ChildArray(SecondKey, <<y, z>>) :
                          y \in SlotNodes(2), z \in {PlainNode(3), FullNode(3)} } }

\* configurations of a later routeBuilder call on the same registry: a node
\* that asks for t1 and declares no traits, and a plain route
LaterConfigs ==
  { [EmptyNode EXCEPT !.is = IsTraits(<<"t1">>)],
    [EmptyNode EXCEPT !.children =
       << Child(<<Slash, Lit("d")>>,
                [EmptyNode EXCEPT !.routes = << Decl("get", FnDest("anon")) >>,
                                  !.is = IsTraits(<<"t1">>)]) >>] }

InitTree ==
  /\ EmptyRegistry
  /\ cfg \in TreeConfigs
  /\ built = NotBuilt
  /\ NoRoute

\* the caller turns to another configuration
NextConfiguration(configuration) ==
  /\ cfg \in TreeConfigs
  /\ cfg' = configuration
  /\ built' = NotBuilt
  /\ result' = NoResult
  /\ UNCHANGED <<routes, routes_by_name, routes_by_canonical_path, this_route, mount>>

NextTree ==
  \/ BuildStep
  \/ RouteBuilder(cfg)
  \/ \E c \in LaterConfigs : NextConfiguration(c)

SpecTree == InitTree /\ [][NextTree]_vars

(***************************************************************************)
(* SpecPrefix: build on chains of nested prefix keys, a route at every     *)
(* level, and addPrefix on the collection built.                           *)
(***************************************************************************)
\* /a, /, "/a/ ", //b/ and /a/:id
PrefixKeys ==
  { <<Slash, Lit("a")>>, <<Slash>>, <<Slash, Lit("a"), Slash, Space>>,
    <<Slash, Slash, Lit("b"), Slash>>, <<Slash, Lit("a"), Slash, Par("id")>> }

RECURSIVE PrefixChains(_)
PrefixChains(d) ==
  LET node == [EmptyNode EXCEPT
                 !.routes = << Decl("get", ObjDest("", "aaaa", RouteNameAt(d), Absent)) >>]
  IN IF d >= MaxDepth THEN {node}
     ELSE { [node EXCEPT !.children = << Child(k, n) >>] :
              k \in PrefixKeys, n \in PrefixChains(d + 1) }

PrefixConfigs == PrefixChains(0)

\* the segments addPrefix is called with on a built collection: base, /base/,
\* " /base ", / and the empty string
PrefixSegments ==
  { <<Lit("base")>>, <<Slash, Lit("base"), Slash>>, <<Space, Slash, Lit("base"), Space>>,
    <<Slash>>, <<>> }

\* routes.addPrefix(segment) on the collection build() returned, once; the
\* result keeps the collection as it was before
AddPrefixStep(segment) ==
  /\ built.err = ""
  /\ built.coll # <<>>
  /\ result.op # "addPrefix"
  /\ \E a \in {AddPrefix(built.coll, segment)} :
       /\ built' = [err |-> "", coll |-> a.coll]
       /\ result' = [NoResult EXCEPT !.op = "addPrefix", !.status = a.err,
                                     !.path = segment, !.value = built.coll]
  /\ UNCHANGED <<routes, routes_by_name, routes_by_canonical_path, cfg, this_route, mount>>

InitPrefix ==
  /\ EmptyRegistry
  /\ cfg \in PrefixConfigs
  /\ built = NotBuilt
  /\ NoRoute

NextPrefix ==
  \/ BuildStep
  \/ \E segment \in PrefixSegments : AddPrefixStep(segment)

SpecPrefix == InitPrefix /\ [][NextPrefix]_vars

(***************************************************************************)
(* SpecOrder: routeBuilder on trees with routes at the root, under /a,     *)
(* under /a/c and under /b, on a registry that is empty or holds one       *)
(* route.                                                                  *)
(***************************************************************************)
\* root: the routes of the root, none, or post and get declared in that
\* order; below: the get routes of the nodes below, named and anonymous
\* functions and destinations with an explicit name, one of them a numeral;
\* earlier: the route registered before the configuration is, post /b under
\* the name of the root's post route or of the route of /a/c
OrderInputs ==
  [root  |-> { <<>>, << Decl("post", FnDest("bbbb")), Decl("get", FnDest("aaaa")) >> },
   below |-> { << Decl("get", FnDest("zzzz")) >>,
               << Decl("get", FnDest("anon")) >>,
               << Decl("get", ObjDest("", "aaaa", "1", Absent)) >>,
               << Decl("get", ObjDest("", "aaaa", "r2", Absent)) >> },
   earlier |-> { NewRoute(<<Slash, Lit("b")>>, Options(<<"post">>, "bbbb", "")).route,
                 NewRoute(<<Slash, Lit("b")>>,
                          Options(<<"post">>, "thisThatAction", "")).route }]

OrderConfigs ==
  { [EmptyNode EXCEPT
       !.routes = own,
       !.children =
         << Child(<<Slash, Lit("a")>>,
                  [EmptyNode EXCEPT
                     !.routes = a,
                     !.children = << Child(<<Slash, Lit("c")>>,
                                           LeafNode(<< Decl("get", FnDest("thisThatAction")) >>)) >>]),
            Child(<<Slash, Lit("b")>>, LeafNode(b)) >>] :
      own \in OrderInputs.root, a \in OrderInputs.below \cup {<<>>}, b \in OrderInputs.below }

InitOrder ==
  /\ EmptyRegistry
  /\ cfg \in OrderConfigs
  /\ built = NotBuilt
  /\ NoRoute

\* the configuration is built, the collection may be given a prefix, and a
\* registry that is empty or holds one route is handed the configuration
NextOrder ==
  \/ BuildStep
  \/ \E segment \in PrefixSegments : result.op = "none" /\ AddPrefixStep(segment)
  \/ RouteBuilder(cfg)
  \/ \E r \in OrderInputs.earlier : routes = <<>> /\ AddRoute(r)

SpecOrder == InitOrder /\ [][NextOrder]_vars

(***************************************************************************)
(* SpecCollection: the calls made on one RouteCollection, which starts     *)
(* empty.  built.coll is the collection, built.err the error of the last   *)
(* call; the result keeps the collection as it was before the call.        *)
(***************************************************************************)
MaxMiddleware == 3

\* what the calls are made with.  routes: new Route('/foo') with an action and
\* a post route on /bar with middleware; names: the names routes are added
\* under, one of them a numeral; others: the collections handed to
\* addCollection; middlewares: the lists handed to prependAllMiddleware, one
\* with a function of two arguments
CollectionInputs ==
  LET rs == { NewRoute(<<Slash, Lit("foo")>>, Options(<<"get">>, "aaaa", "")).route,
              NewRoute(<<Slash, Lit("bar")>>,
                       [Options(<<"post">>, "bbbb", "") EXCEPT !.middleware = <<"m3">>]).route }
  IN [routes |-> rs,
      names |-> {"foo_index", "bar_index", "1"},
      others |-> { CollectionAdd(CollectionAdd(<<>>, "bar_index", r1), n, r2) :
                     r1 \in rs, r2 \in rs, n \in {"foo_index", "1"} },
      middlewares |-> { <<"m1", "m2">>, <<"m2">>, <<"m1", "twoArgs">> }]

InitCollection ==
  /\ EmptyRegistry
  /\ cfg = EmptyNode
  /\ built = [err |-> "", coll |-> <<>>]
  /\ NoRoute

\* routes.add(route_name, route)
CollectionAddStep(route_name, route) ==
  /\ built.err = ""
  /\ built' = [err |-> "", coll |-> CollectionAdd(built.coll, route_name, route)]
  /\ result' = [NoResult EXCEPT !.op = "collection.add", !.name = route_name,
                                !.route = <<route>>, !.value = built.coll]
  /\ UNCHANGED <<routes, routes_by_name, routes_by_canonical_path, cfg, this_route, mount>>

\* routes.addCollection(route_collection)
AddCollectionStep(route_collection) ==
  /\ built.err = ""
  /\ built' = [err |-> "", coll |-> AddCollection(built.coll, route_collection)]
  /\ result' = [NoResult EXCEPT !.op = "addCollection", !.route = route_collection,
                                !.value = built.coll]
  /\ UNCHANGED <<routes, routes_by_name, routes_by_canonical_path, cfg, this_route, mount>>

\* routes.prependAllMiddleware(middlewares), on routes with room for the list
PrependAllMiddlewareStep(middlewares) ==
  /\ built.err = ""
  /\ built.coll # <<>>
  /\ \A i \in 1..Len(built.coll) :
       Len(built.coll[i].route.middleware) + Len(middlewares) <= MaxMiddleware
  /\ built' = PrependAllMiddleware(built.coll, middlewares)
  /\ result' = [NoResult EXCEPT !.op = "prependAllMiddleware", !.parameters = middlewares,
                                !.status = PrependAllMiddleware(built.coll, middlewares).err,
                                !.value = built.coll]
  /\ UNCHANGED <<routes, routes_by_name, routes_by_canonical_path, cfg, this_route, mount>>

NextCollection ==
  \/ \E n \in CollectionInputs.names, r \in CollectionInputs.routes : CollectionAddStep(n, r)
  \/ \E c \in CollectionInputs.others : AddCollectionStep(c)
  \/ \E ms \in CollectionInputs.middlewares : PrependAllMiddlewareStep(ms)

SpecCollection == InitCollection /\ [][NextCollection]_vars

(***************************************************************************)
(* Reading a configuration tree: the declarations the properties speak of. *)
(***************************************************************************)
\* the paths to the nodes of a tree, a path being the indices taken in
\* SubConfigurations from the root down
RECURSIVE PathsOf(_)
PathsOf(node) ==
  LET subs == SubConfigurations(node)
  IN {<<>>} \cup UNION { { <<i>> \o q : q \in PathsOf(subs[i].node) } : i \in 1..Len(subs) }

RECURSIVE NodeAt(_, _)
NodeAt(node, path) ==
  IF path = <<>> THEN node
  ELSE NodeAt(SubConfigurations(node)[Head(path)].node, Tail(path))

\* N0 (the root), N1, ..., Nk: the nodes from the root down to the node at path
ChainTo(root, path) ==
  [k \in 1..(Len(path) + 1) |-> NodeAt(root, SubSeq(path, 1, k - 1))]

\* the values a key declares, in declared order (none when the key is absent)
Declared(x) == x.v

\* the name a destination gives its route: the explicit one, else the function's
DeclaredName(dest) ==
  IF dest.shape # "fn" /\ dest.name # "" THEN dest.name
  ELSE ToLowerCase(FunctionName(dest.action))

\* the trait of that name in the root's traits map
TraitNamed(root, name) ==
  LET ts == root.traits.v
  IN ts[CHOOSE i \in 1..Len(ts) : ts[i].name = name]

\* the route declarations of a tree: where (path) and which (index in routes)
Declarations(root) ==
  UNION { { [path |-> p, dest |-> NodeAt(root, p).routes[i].dest] :
              i \in 1..Len(NodeAt(root, p).routes) } : p \in PathsOf(root) }

\* the compiled route of a declaration in the built collection (<<>>: none)
CompiledRoute(d) == CollectionGet(built.coll, DeclaredName(d.dest))

\* some / no node of a chain uses `is`
UsesTraits(chain) == \E k \in 1..Len(chain) : chain[k].is.has

(***************************************************************************)
(* Properties of the build (SpecBuild).                                    *)
(***************************************************************************)
\* the middleware keys of N0, N1, ..., Nk, each in declared order
NestedMiddleware(chain) ==
  Flatten([k \in 1..Len(chain) |-> Declared(chain[k].middleware)])

\* C1: for a route declared under the nodes N0 (root), ..., Nk, each with its
\* own middleware key (a list or a single middleware) and no traits, the
\* compiled route's middleware is N0's list, then N1's, ..., then Nk's, each in
\* declared order, then the middleware of the route's own destination object:
\* nothing duplicated, nothing missing.
MiddlewareNestingOrder ==
  built.err = "" =>
    \A d \in Declarations(cfg) :
      LET chain == ChainTo(cfg, d.path) IN
      ~UsesTraits(chain) =>
        /\ CompiledRoute(d) # <<>>
        /\ CompiledRoute(d)[1].middleware
             = NestedMiddleware(chain) \o Declared(d.dest.middleware)

\* C1 witness: a route under root, child and grandchild that all declare
\* middleware, with a middleware of its own, compiled with all of them in order
MiddlewareNestingOrderWitness ==
  /\ built.err = ""
  /\ \E d \in Declarations(cfg) :
       LET chain == ChainTo(cfg, d.path) IN
       /\ Len(chain) >= 3
       /\ ~UsesTraits(chain)
       /\ \A k \in 1..Len(chain) : chain[k].middleware.kind # "absent"
       /\ \E k \in 1..Len(chain) : chain[k].middleware.kind = "list"
       /\ d.dest.middleware.kind = "one"
       /\ CompiledRoute(d) # <<>>
       /\ Len(CompiledRoute(d)[1].middleware) >= 4
       /\ CompiledRoute(d)[1].middleware
            = NestedMiddleware(chain) \o Declared(d.dest.middleware)

IsPrefix(a, b) == Len(a) <= Len(b) /\ SubSeq(b, 1, Len(a)) = a

\* the middleware / error handlers of the traits a node names, trait after
\* trait in `is` order
TraitMiddleware(root, node) ==
  Flatten([i \in 1..Len(node.is.v) |-> Declared(TraitNamed(root, node.is.v[i]).middleware)])

TraitErrorHandlers(root, node) ==
  Flatten([i \in 1..Len(node.is.v) |-> Declared(TraitNamed(root, node.is.v[i]).error)])

\* what the levels N0 .. N(j-1) put in front: at each level the traits'
\* middleware, then the level's own
MiddlewareAbove(root, chain, j) ==
  Flatten([k \in 1..(j - 1) |->
             TraitMiddleware(root, chain[k]) \o Declared(chain[k].middleware)])

\* C2: for a node that declares both its own middleware and is: [t], every
\* route of its subtree has, in order, the middleware of all the ancestors,
\* then trait t's middleware in the trait's declared order, then the node's own
\* middleware (ancestors that name traits naming one each).
TraitMiddlewarePosition ==
  built.err = "" =>
    \A d \in Declarations(cfg) :
      LET chain == ChainTo(cfg, d.path) IN
      \A j \in 1..Len(chain) :
        ( /\ chain[j].middleware.kind # "absent"
          /\ chain[j].is.has /\ Len(chain[j].is.v) = 1
          /\ \A k \in 1..(j - 1) : Len(chain[k].is.v) <= 1 )
        => /\ CompiledRoute(d) # <<>>
           /\ IsPrefix(MiddlewareAbove(cfg, chain, j)
                         \o TraitMiddleware(cfg, chain[j])
                         \o Declared(chain[j].middleware),
                       CompiledRoute(d)[1].middleware)

\* C2 witness: root middleware, then a node with is: [t1] and middleware of its
\* own, and a route below it compiled with root, trait, own in that order
TraitMiddlewarePositionWitness ==
  /\ built.err = ""
  /\ \E d \in Declarations(cfg) :
       LET chain == ChainTo(cfg, d.path) IN
       /\ Len(chain) >= 3
       /\ chain[1].middleware.kind = "list" /\ ~chain[1].is.has
       /\ chain[2].middleware.kind = "list" /\ chain[2].is.has /\ chain[2].is.v = <<"t1">>
       /\ Len(TraitMiddleware(cfg, chain[2])) = 2
       /\ CompiledRoute(d) # <<>>
       /\ IsPrefix(Declared(chain[1].middleware) \o TraitMiddleware(cfg, chain[2])
                     \o Declared(chain[2].middleware),
                   CompiledRoute(d)[1].middleware)

\* C3: for a node with is: [t1, ..., tn], n >= 2, the traits' middleware is in
\* the compiled route's list in `is` order (all of t1's before all of t2's, ...),
\* all of it before the node's own middleware.
TraitsKeepIsOrder ==
  built.err = "" =>
    \A d \in Declarations(cfg) :
      LET chain == ChainTo(cfg, d.path) IN
      \A j \in 1..Len(chain) :
        (chain[j].is.has /\ Len(chain[j].is.v) >= 2)
        => LET above == Len(MiddlewareAbove(cfg, chain, j))
               here  == TraitMiddleware(cfg, chain[j]) \o Declared(chain[j].middleware)
           IN /\ CompiledRoute(d) # <<>>
              /\ Len(CompiledRoute(d)[1].middleware) >= above + Len(here)
              /\ SubSeq(CompiledRoute(d)[1].middleware, above + 1, above + Len(here)) = here

\* the error keys of Nk, N(k-1), ..., N0, each in declared order
NestedErrorHandlers(chain) ==
  Flatten([k \in 1..Len(chain) |-> Declared(chain[Len(chain) + 1 - k].error)])

\* C4: for a route under N0 (root) ... Nk, each with its own error key (one
\* handler or a list) and no traits, the compiled route's error handlers are
\* Nk's, then N(k-1)'s, ..., then N0's, each level's in declared order.
ErrorHandlersChildFirst ==
  built.err = "" =>
    \A d \in Declarations(cfg) :
      LET chain == ChainTo(cfg, d.path) IN
      ~UsesTraits(chain) =>
        /\ CompiledRoute(d) # <<>>
        /\ CompiledRoute(d)[1].error_handlers = NestedErrorHandlers(chain)

\* C4 witness: leaf, parent and root all declare error handlers (a list among
\* them) and the leaf's route has them leaf first, root last
ErrorHandlersChildFirstWitness ==
  /\ built.err = ""
  /\ \E d \in Declarations(cfg) :
       LET chain == ChainTo(cfg, d.path) IN
       /\ Len(chain) >= 3
       /\ ~UsesTraits(chain)
       /\ chain[1].error.kind = "one" /\ chain[2].error.kind = "one"
       /\ chain[3].error.kind = "one"
       /\ CompiledRoute(d) # <<>>
       /\ CompiledRoute(d)[1].error_handlers
            = Declared(chain[3].error) \o Declared(chain[2].error) \o Declared(chain[1].error)

\* what one level appends: its own error handlers, then its traits'
LevelErrorHandlers(root, node) ==
  Declared(node.error) \o TraitErrorHandlers(root, node)

MethodPaths(route) ==
  { MethodPath(route.methods[i], route.canonical_route_path) : i \in 1..Len(route.methods) }

IsAddCall(r) == r.op \in {"add", "addRoute"}

\* C6: add(name, route) fails with route_registry_path_collision if and only
\* if, for some method m of the route, the key m + " " + canonical_path was
\* indexed by an earlier add; the same holds of every add a routeBuilder call
\* makes, whatever call indexed the key; every registered route has its keys
\* indexed, so routes on one canonical path with disjoint methods all register.
PathCollisionIffIndexed ==
  [][ /\ IsAddCall(result') =>
           ( result'.status = "route_registry_path_collision"
             <=> MethodPaths(result'.route[1]) \cap DOMAIN routes_by_canonical_path # {} )
      /\ result'.op = "routeBuilder" =>
           \A i \in 1..Len(result'.value) :
             LET before == (DOMAIN routes_by_canonical_path)
                           \cup UNION { MethodPaths(result'.value[j].route) : j \in 1..(i - 1) }
             IN result'.value[i].status = "route_registry_path_collision"
                <=> MethodPaths(result'.value[i].route) \cap before # {}
      /\ \A i \in 1..Len(routes') :
           MethodPaths(routes'[i]) \subseteq DOMAIN routes_by_canonical_path'
    ]_vars

\* C6 witness: get /foo and post /foo are both registered, and a later
\* routeBuilder call fails on its first route, whose key an earlier call indexed
PathCollisionIffIndexedWitness ==
  /\ result.op = "routeBuilder"
  /\ result.status = "route_registry_path_collision"
  /\ Len(result.value) = 1
  /\ \E i, j \in 1..Len(routes) :
       /\ routes[i].canonical_route_path = routes[j].canonical_route_path
       /\ routes[i].methods = <<"get">> /\ routes[j].methods = <<"post">>
       /\ MethodPath("get", routes[i].canonical_route_path)
            \in MethodPaths(result.value[1].route)

\* C7 as stated: once a name is registered, any later add or addRoute under
\* that name fails with route_registry_name_collision.
NameCollisionAlways ==
  [][ (IsAddCall(result') /\ result'.name \in DOMAIN routes_by_name)
        => result'.status = "route_registry_name_collision" ]_vars

\* C7: once a name is registered, any later add or addRoute under that name
\* fails: with route_registry_name_collision when none of the route's method
\* paths is indexed yet, with route_registry_path_collision when one is, and the
\* route list and the name index stay as they were.
NameCollisionAfterPathCheck ==
  [][ (IsAddCall(result') /\ result'.name \in DOMAIN routes_by_name)
        => /\ result'.status =
                IF MethodPaths(result'.route[1]) \cap DOMAIN routes_by_canonical_path = {}
                THEN "route_registry_name_collision"
                ELSE "route_registry_path_collision"
           /\ routes' = routes
           /\ routes_by_name' = routes_by_name ]_vars

\* C7 witness: a name collision for a route whose canonical path and methods
\* differ from those of every registered route
NameCollisionAfterPathCheckWitness ==
  /\ IsAddCall(result)
  /\ result.status = "route_registry_name_collision"
  /\ Len(routes) >= 1
  /\ result.name \in DOMAIN routes_by_name
  /\ \A i \in 1..Len(routes) :
       /\ routes[i].canonical_route_path # result.route[1].canonical_route_path
       /\ routes[i].methods # result.route[1].methods

PriorityOverridesRegistrationOrder ==
  /\ result.op = "match" =>
       \A i, j \in 1..Len(routes) :
         ( /\ i < j
           /\ IsMatch(routes[i], result.path) /\ IsMatch(routes[j], result.path)
           /\ routes[j].priority > routes[i].priority )
         => result.value # <<routes[i]>>
  /\ result.op = "getAll" => result.value = routes

\* the names the call that produced r registered
Registered(r) ==
  IF IsAddCall(r) /\ r.status = "" THEN {r.name}
  ELSE IF r.op = "routeBuilder"
    THEN { r.value[i].name : i \in { k \in 1..Len(r.value) : r.value[k].status = "" } }
  ELSE {}

ParameterTokens(pattern) == SelectSeq(Parse(pattern), LAMBDA token : ~token.lit)

\* a token the pattern names, not one path-to-regexp numbered
Named(token) == token.name \notin {"0", "1", "2", "n"}

\* a required parameter the mapping has no value for
Missing(token, parameters) == ~token.opt /\ token.name \notin DOMAIN parameters

\* a parameter the mapping has a value for that its constraint rejects
Violates(token, parameters) ==
  token.name \in DOMAIN parameters /\ ~Accepts(token.re, parameters[token.name])

\* C11: Route.generate(parameters) raises the missing-parameter error whenever
\* some required named parameter of the pattern is absent from parameters, and
\* succeeds when every required parameter is present, optional ones absent or
\* not.
GenerateMissingOrSucceeds ==
  result.op = "route.generate" =>
    LET tokens == ParameterTokens(this_route[1].pattern) IN
    /\ (\E i \in 1..Len(tokens) : Named(tokens[i]) /\ Missing(tokens[i], result.parameters))
         => result.status = "missing_parameter"
    /\ (\A i \in 1..Len(tokens) : ~Missing(tokens[i], result.parameters))
         => result.status = ""

\* C11 as amended: the missing-parameter error is raised when a required named
\* parameter is absent and no parameter before it has a value violating its
\* constraint; generate succeeds when every required parameter is present and
\* every value supplied satisfies its parameter's constraint.
GenerateMissingUnlessViolation ==
  result.op = "route.generate" =>
    LET tokens == ParameterTokens(this_route[1].pattern) IN
    /\ (\E i \in 1..Len(tokens) :
          /\ Named(tokens[i]) /\ Missing(tokens[i], result.parameters)
          /\ \A j \in 1..(i-1) : ~Violates(tokens[j], result.parameters))
         => result.status = "missing_parameter"
    /\ (\A i \in 1..Len(tokens) :
          ~Missing(tokens[i], result.parameters) /\ ~Violates(tokens[i], result.parameters))
         => result.status = "" /\ result.value # <<>>

\* C11 witness: /foo/:id/bar/:baz generated from {id: 3} misses baz
GenerateMissingUnlessViolationWitness ==
  /\ result.op = "route.generate"
  /\ this_route[1].pattern =
       <<Slash, Lit("foo"), Slash, Par("id"), Slash, Lit("bar"), Slash, Par("baz")>>
  /\ result.parameters = [id |-> "3"]
  /\ result.status = "missing_parameter"

\* C12: generate and isMatch round-trip: for every route and every parameter
\* mapping that supplies all required parameters, with values satisfying the
\* constraints of their parameters, generate returns a path and isMatch
\* accepts that path.
GenerateMatchRoundTrip ==
  result.op = "route.generate" =>
    LET tokens == ParameterTokens(this_route[1].pattern) IN
    (\A i \in 1..Len(tokens) :
       ~Missing(tokens[i], result.parameters) /\ ~Violates(tokens[i], result.parameters))
      => /\ result.status = ""
         /\ result.value = Generate(this_route[1], result.parameters).path
         /\ IsMatch(this_route[1], result.value)

\* C12 witness: /foo/(\d+)/bar/(\d+)? generated from {0: 1}, the optional
\* parameter absent, gives /foo/1/bar, which the route matches
GenerateMatchRoundTripWitness ==
  /\ result.op = "route.generate"
  /\ result.parameters = ("0" :> "1")
  /\ result.status = ""
  /\ result.value = <<Slash, Lit("foo"), Slash, Lit("1"), Slash, Lit("bar")>>
  /\ Len(ParameterTokens(this_route[1].pattern)) = 2
  /\ IsMatch(this_route[1], result.value)

(***************************************************************************)
(* Canonical paths.                                                        *)
(***************************************************************************)
\* the pattern with every constraint and every ? taken out and the unnamed
\* parameters named by position; k counts the unnamed parameters passed
RECURSIVE Unconstrained(_, _)
Unconstrained(pattern, k) ==
  IF pattern = <<>> THEN <<>>
  ELSE IF Head(pattern).t = "par" /\ Head(pattern).v = ""
    THEN <<Par(IndexName(k))>> \o Unconstrained(Tail(pattern), k + 1)
  ELSE IF Head(pattern).t = "par"
    THEN <<Par(Head(pattern).v)>> \o Unconstrained(Tail(pattern), k)
  ELSE <<Head(pattern)>> \o Unconstrained(Tail(pattern), k)

\* two patterns that are the same but for the text of a constraint
DifferOnlyInConstraints(p, q) ==
  /\ p # q
  /\ Len(p) = Len(q)
  /\ \A i \in 1..Len(p) : [p[i] EXCEPT !.re = ""] = [q[i] EXCEPT !.re = ""]

\* two patterns of one shape with another name for some parameter
DifferInParameterName(p, q) ==
  /\ Len(p) = Len(q)
  /\ \A i \in 1..Len(p) : p[i].t = q[i].t /\ (p[i].t # "par" => p[i] = q[i])
  /\ \E i \in 1..Len(p) : p[i].t = "par" /\ p[i].v # q[i].v

SharedMethods(r1, r2) == Range(r1.methods) \cap Range(r2.methods)

\* C13: a route's canonical path is its pattern token by token, a literal as
\* its text and a parameter as its prefix and :name (unnamed ones numbered by
\* position), no constraint in it; so the add of a route whose pattern differs
\* from a registered route's only in constraint text, for a method they share,
\* fails with the path collision, and two routes whose patterns differ in a
\* parameter name have different canonical paths and, alone in a registry, do
\* not collide.
CanonicalPathIgnoresConstraints ==
  [][ result'.op = "add" =>
        LET r2 == result'.route[1] IN
        /\ r2.canonical_route_path = PatternText(Unconstrained(r2.pattern, 0))
        /\ \A i \in 1..Len(routes) :
             /\ ( DifferOnlyInConstraints(routes[i].pattern, r2.pattern)
                  /\ SharedMethods(routes[i], r2) # {} )
                => /\ routes[i].canonical_route_path = r2.canonical_route_path
                   /\ result'.status = "route_registry_path_collision"
                   /\ routes' = routes
             /\ DifferInParameterName(routes[i].pattern, r2.pattern)
                => /\ routes[i].canonical_route_path # r2.canonical_route_path
                   /\ ( Len(routes) = 1
                        /\ DOMAIN routes_by_canonical_path = MethodPaths(routes[1]) )
                      => result'.status # "route_registry_path_collision"
    ]_vars

\* C13 witness: /foo/:id is added for get to a registry holding /foo/:id(\d+)
\* for get, and collides
CanonicalPathIgnoresConstraintsWitness ==
  /\ result.op = "add"
  /\ result.status = "route_registry_path_collision"
  /\ Len(routes) = 1
  /\ routes[1].pattern = <<Slash, Lit("foo"), Slash, ParRe("id", "\\d+")>>
  /\ result.route[1].pattern = <<Slash, Lit("foo"), Slash, Par("id")>>
  /\ DOMAIN routes_by_canonical_path = {"get /foo/:id"}

(***************************************************************************)
(* Properties of the build on trees with sibling nodes (SpecTree).         *)
(***************************************************************************)
\* path p is reached before path q when the tree is walked as the builder
\* walks it: a node before its subtrees, the subtrees in key order
Before(p, q) ==
  \/ Len(p) < Len(q) /\ SubSeq(q, 1, Len(p)) = p
  \/ \E k \in 1..Len(p) :
       k <= Len(q) /\ SubSeq(p, 1, k - 1) = SubSeq(q, 1, k - 1) /\ p[k] < q[k]

\* the first of a non-empty set of paths the builder reaches
FirstReached(paths) == CHOOSE p \in paths : \A q \in paths \ {p} : Before(p, q)

\* the part of a tree the builder goes through up to the node at path, that
\* node taken to be `leaf`: the routes of the nodes above it and the subtrees
\* under earlier keys
RECURSIVE CutWith(_, _, _)
CutWith(node, path, leaf) ==
  IF path = <<>> THEN leaf
  ELSE LET subs == SubConfigurations(node) IN
       [EmptyNode EXCEPT
          !.traits = node.traits,
          !.routes = node.routes,
          !.children = [i \in 1..Head(path) |->
                          Child(subs[i].key, IF i = Head(path)
                                             THEN CutWith(subs[i].node, Tail(path), leaf)
                                             ELSE subs[i].node)]]

\* what the builder has gone through when it enters the node at path
CutAt(node, path) == CutWith(node, path, EmptyNode)

\* the nodes below the root that have a traits key
TraitsBelowRoot(root) == { p \in PathsOf(root) : p # <<>> /\ NodeAt(root, p).traits.has }

\* the names the root's traits map declares
RootTraitNames(root) == { root.traits.v[i].name : i \in 1..Len(root.traits.v) }

\* the nodes whose is list names a trait the root does not declare
UnknownTraitUses(root) ==
  { p \in PathsOf(root) :
      /\ NodeAt(root, p).is.has
      /\ \E i \in 1..Len(NodeAt(root, p).is.v) :
           NodeAt(root, p).is.v[i] \notin RootTraitNames(root) }

\* the root's traits map is registered entry by entry, and no node that asks
\* for one of its names is refused
RootTraitsRegistered ==
  /\ cfg.traits.has =>
       \A i \in 1..Len(cfg.traits.v) :
         /\ cfg.traits.v[i].name \in DOMAIN ExtractTraits(cfg, <<>>, TRUE).traits
         /\ ExtractTraits(cfg, <<>>, TRUE).traits[cfg.traits.v[i].name]
              = [middleware |-> cfg.traits.v[i].middleware, error |-> cfg.traits.v[i].error]
  /\ built.err = "invalid_trait_requested" => UnknownTraitUses(cfg) # {}

\* C14: a build of a configuration in which a node other than the root has a
\* traits key fails with invalid_usage_of_trait_node and gives no collection;
\* a traits map at the root is registered, every entry under its name, before
\* any route or child node is compiled.
TraitsOnlyAtRoot ==
  built # NotBuilt =>
    /\ TraitsBelowRoot(cfg) # {}
         => built.err = "invalid_usage_of_trait_node" /\ built.coll = <<>>
    /\ RootTraitsRegistered

\* C14 as amended: such a build fails and gives no collection, with
\* invalid_usage_of_trait_node unless what the builder compiles before it
\* enters the first such node (the routes of the nodes above it, the subtrees
\* under earlier keys) already fails, and then with that error; the root's
\* traits are registered as stated.
TraitsBelowRootFailTheBuild ==
  built # NotBuilt =>
    /\ TraitsBelowRoot(cfg) # {}
         => /\ built.coll = <<>>
            /\ built.err =
                 IF Build(CutAt(cfg, FirstReached(TraitsBelowRoot(cfg)))).err = ""
                 THEN "invalid_usage_of_trait_node"
                 ELSE Build(CutAt(cfg, FirstReached(TraitsBelowRoot(cfg)))).err
    /\ RootTraitsRegistered

\* C14 witness: the root declares traits, the node under the first key is
\* compiled with them, and the node under /b has a traits key of its own
TraitsBelowRootFailTheBuildWitness ==
  /\ built.err = "invalid_usage_of_trait_node"
  /\ built.coll = <<>>
  /\ cfg.traits.has
  /\ TraitsBelowRoot(cfg) = {<<2>>}
  /\ NodeAt(cfg, <<1>>).is.has
  /\ Build(CutAt(cfg, <<2>>)).coll # <<>>

\* the node with its is list cut before the first name the root does not declare
KnownTraitsOnly(root, node) ==
  LET k == FirstIndex(node.is.v, LAMBDA name : name \notin RootTraitNames(root))
  IN [node EXCEPT !.is = IsTraits(SubSeq(node.is.v, 1, k - 1))]

\* the builder gets to the unknown name of the node at path: what comes before
\* the node, and the node's own compilation up to that name, do not fail
ReachesUnknownTrait(root, path) ==
  Build(CutWith(root, path, KnownTraitsOnly(root, NodeAt(root, path)))).err = ""

RegistryUnchanged ==
  /\ routes' = routes
  /\ routes_by_name' = routes_by_name
  /\ routes_by_canonical_path' = routes_by_canonical_path

RECURSIVE KeysTo(_, _)
KeysTo(node, path) ==
  IF path = <<>> THEN <<>>
  ELSE <<SubConfigurations(node)[Head(path)].key>>
       \o KeysTo(SubConfigurations(node)[Head(path)].node, Tail(path))

\* / and the stripped key for every key that is not empty once stripped
RECURSIVE Composed(_)
Composed(stripped) ==
  IF stripped = <<>> THEN <<>>
  ELSE (IF Head(stripped) = <<>> THEN <<>> ELSE <<Slash>> \o Head(stripped))
       \o Composed(Tail(stripped))

\* the built routes are those of the collection before addPrefix(segment), in
\* the same order under the same keys, each pattern with / and the stripped
\* segment before it, or as it was when the stripped segment is empty
Prefixed(before, after, stripped) ==
  /\ Len(after) = Len(before)
  /\ \A i \in 1..Len(before) :
       /\ after[i].key = before[i].key
       /\ after[i].route.pattern =
            IF stripped = <<>> THEN before[i].route.pattern
            ELSE <<Slash>> \o stripped \o before[i].route.pattern

\* C16: addPrefix(segment) strips the leading and trailing / of the segment,
\* does nothing when nothing is left, and else puts / and the stripped segment
\* before the pattern of every route; so a route declared under the nested
\* prefix keys k1 ... kn is compiled with the pattern made of / and the
\* stripped ki for every ki not empty once stripped, outermost first.
PrefixStripsSlashes ==
  /\ result.op = "addPrefix" => Prefixed(result.value, built.coll, TrimStuff(result.path))
  /\ (built.err = "" /\ result.op # "addPrefix") =>
       \A d \in Declarations(cfg) :
         CompiledRoute(d) # <<>> =>
           CompiledRoute(d)[1].pattern =
             Composed([i \in 1..Len(d.path) |-> TrimStuff(KeysTo(cfg, d.path)[i])])

\* C16 as amended: addPrefix first trims the whitespace around the segment and
\* then strips its leading and trailing /; the rest as stated, with the keys
\* stripped this way.
PrefixTrimsThenStripsSlashes ==
  /\ result.op = "addPrefix" =>
       Prefixed(result.value, built.coll, TrimStuff(Trim(result.path)))
  /\ (built.err = "" /\ result.op # "addPrefix") =>
       \A d \in Declarations(cfg) :
         CompiledRoute(d) # <<>> =>
           CompiledRoute(d)[1].pattern =
             Composed([i \in 1..Len(d.path) |-> TrimStuff(Trim(KeysTo(cfg, d.path)[i]))])

\* C16 witness: the route declared under "/a/ " and then //b/ is compiled
\* with the pattern /a/b
PrefixTrimsThenStripsSlashesWitness ==
  /\ built.err = ""
  /\ result.op # "addPrefix"
  /\ \E d \in Declarations(cfg) :
       /\ Len(d.path) = 2
       /\ KeysTo(cfg, d.path) =
            << <<Slash, Lit("a"), Slash, Space>>, <<Slash, Slash, Lit("b"), Slash>> >>
       /\ CompiledRoute(d) # <<>>
       /\ CompiledRoute(d)[1].pattern = <<Slash, Lit("a"), Slash, Lit("b")>>

(***************************************************************************)
(* Inheritance.                                                            *)
(***************************************************************************)
\* what the nodes of a chain declare for the routes below them: their own
\* middleware, param and error entries and those of the traits they name
ChainMiddleware(root, chain) ==
  Flatten([k \in 1..Len(chain) |->
             Declared(chain[k].middleware) \o
             (IF chain[k].is.has THEN TraitMiddleware(root, chain[k]) ELSE <<>>)])

ChainErrorHandlers(root, chain) ==
  Flatten([k \in 1..Len(chain) |->
             Declared(chain[k].error) \o
             (IF chain[k].is.has THEN TraitErrorHandlers(root, chain[k]) ELSE <<>>)])

ChainParameterConverters(chain) ==
  Flatten([k \in 1..Len(chain) |-> Declared(chain[k].param)])

\* the two lists hold the same entries, each as often
SameEntries(a, b) ==
  /\ Len(a) = Len(b)
  /\ \A x \in Range(a) \cup Range(b) :
       Cardinality({ i \in 1..Len(a) : a[i] = x }) = Cardinality({ i \in 1..Len(b) : b[i] = x })

\* C17: the middleware, parameter converters, error handlers and traits a node
\* declares are applied to the routes declared at the node and below it and to
\* no other: a compiled route carries what the nodes from the root down to its
\* own node declare (and its destination's middleware), once each, and nothing
\* of a sibling node, be it in an array under the same key or under a / key.
InheritanceConfinedToSubtree ==
  built.err = "" =>
    \A d \in Declarations(cfg) :
      LET chain == ChainTo(cfg, d.path) IN
      /\ CompiledRoute(d) # <<>>
      /\ SameEntries(CompiledRoute(d)[1].middleware,
                     ChainMiddleware(cfg, chain) \o Declared(d.dest.middleware))
      /\ SameEntries(CompiledRoute(d)[1].error_handlers, ChainErrorHandlers(cfg, chain))
      /\ SameEntries(CompiledRoute(d)[1].parameter_converters,
                     ChainParameterConverters(chain))

\* C17 witness: a node under / and two nodes in an array under /b, each with
\* middleware, a parameter converter, an error handler and a trait of its own,
\* and every route compiled with those of its own node only
InheritanceConfinedToSubtreeWitness ==
  /\ built.err = ""
  /\ Len(built.coll) = 3
  /\ SubConfigurations(cfg)[1].key = <<Slash>>
  /\ \A i \in 1..3 : SubConfigurations(cfg)[i].node = FullNode(i)
  /\ CollectionGet(built.coll, "aaaa")[1].middleware = <<"m4", "m5", "m1">>
  /\ CollectionGet(built.coll, "bbbb")[1].middleware = <<"m6", "m2">>
  /\ CollectionGet(built.coll, "zzzz")[1].parameter_converters = <<Slot(3).param>>
  /\ CollectionGet(built.coll, "bbbb")[1].error_handlers = <<"e2", "e9">>

(***************************************************************************)
(* Registration on a mount.                                                *)
(***************************************************************************)
\* the calls are one method registration per method of the route, in the
\* order of its methods, each with the pattern, the middleware in list order
\* and the action last
OncePerMethod(r, calls) ==
  /\ Len(calls) = Len(r.methods)
  /\ \A i \in 1..Len(calls) :
       /\ calls[i].fn = r.methods[i]
       /\ calls[i].pattern = r.pattern
       /\ Len(calls[i].handlers) = Len(r.middleware) + 1
       /\ SubSeq(calls[i].handlers, 1, Len(r.middleware)) = r.middleware
       /\ calls[i].handlers[Len(calls[i].handlers)] = GetRouteDestination(r)
       /\ calls[i].router = <<>>

\* the calls are the route's parameter converters in list order
ConvertersInOrder(r, calls) ==
  /\ Len(calls) = Len(r.parameter_converters)
  /\ \A i \in 1..Len(calls) :
       /\ calls[i].fn = "param"
       /\ calls[i].id = r.parameter_converters[i].id
       /\ calls[i].handlers = <<r.parameter_converters[i].parameter_converter>>

\* the calls are the route's error handlers in list order
ErrorHandlersInOrder(r, calls) ==
  /\ Len(calls) = Len(r.error_handlers)
  /\ \A i \in 1..Len(calls) :
       /\ calls[i].fn = "use"
       /\ calls[i].handlers = <<r.error_handlers[i]>>
       /\ calls[i].router = <<>>

\* a call that registers a converter or a handler on the router itself
OnTheRouterItself(call) ==
  \/ call.fn = "param"
  \/ call.fn = "use" /\ call.handlers # <<>>

\* C18: register attaches a fresh sub-router to the mount if and only if the
\* route has a parameter converter or an error handler, the sub-router holding
\* the converters, then one registration per method (pattern, middleware in
\* order, action last), then the error handlers in order; otherwise the mount
\* gets the method registrations directly; in no case is a converter or an
\* error handler registered on the mount itself.
RegisterIsolatesMount ==
  result.op = "route.register" =>
    LET r  == this_route[1]
        np == Len(r.parameter_converters)
        nm == Len(r.methods)
        ne == Len(r.error_handlers)
    IN /\ IF np > 0 \/ ne > 0
          THEN /\ Len(mount) = 1
               /\ mount[1].fn = "use"
               /\ mount[1].handlers = <<>>
               /\ Len(mount[1].router) = np + nm + ne
               /\ ConvertersInOrder(r, SubSeq(mount[1].router, 1, np))
               /\ OncePerMethod(r, SubSeq(mount[1].router, np + 1, np + nm))
               /\ ErrorHandlersInOrder(r, SubSeq(mount[1].router, np + nm + 1, np + nm + ne))
          ELSE /\ OncePerMethod(r, mount)
       /\ \A i \in 1..Len(mount) : ~OnTheRouterItself(mount[i])

\* C18 witness: a route with two methods, two middleware, a parameter
\* converter and two error handlers has been registered on a sub-router
RegisterIsolatesMountWitness ==
  /\ result.op = "route.register"
  /\ Len(this_route[1].methods) = 2
  /\ Len(this_route[1].middleware) = 2
  /\ Len(this_route[1].parameter_converters) = 1
  /\ Len(this_route[1].error_handlers) = 2
  /\ Len(mount) = 1
  /\ Len(mount[1].router) = 5

(***************************************************************************)
(* Consistency of a Route.                                                 *)
(***************************************************************************)
\* C19: in every state after its construction, the state a setter leaves when
\* its validation failed included, the route's methods, destination,
\* middleware, parameter converters and error handlers pass validate.
RouteAlwaysConsistent ==
  \A i \in 1..Len(this_route) : Validate(this_route[i]) = ""

(***************************************************************************)
(* Invalid middleware.                                                     *)
(***************************************************************************)
\* the nodes with a middleware entry that is no function of three parameters
InvalidMiddlewareUses(root) ==
  { p \in PathsOf(root) :
      \E i \in 1..Len(Declared(NodeAt(root, p).middleware)) :
        Arity(Declared(NodeAt(root, p).middleware)[i]) # 3 }

\* a route is declared at the node or below it
DeclaresRoutes(root, path) == \E d \in Declarations(root) : IsPrefix(path, d.path)

\* C20: routeBuilder on a configuration in which some node has a middleware
\* entry that is not a function, or is a function that does not declare
\* exactly 3 parameters, fails and registers nothing.
InvalidMiddlewareFailsTheBuild ==
  [][ (InvalidMiddlewareUses(cfg) # {} /\ result'.op = "routeBuilder"
         /\ built' = built /\ cfg' = cfg)
        => result'.status # "" /\ RegistryUnchanged
    ]_vars

\* C20 as amended: routeBuilder fails and registers nothing when such a node
\* declares a route, at the node itself or below it.
InvalidMiddlewareOnRoutesFailsTheBuild ==
  [][ ((\E p \in InvalidMiddlewareUses(cfg) : DeclaresRoutes(cfg, p))
         /\ result'.op = "routeBuilder" /\ built' = built /\ cfg' = cfg)
        => result'.status # "" /\ RegistryUnchanged
    ]_vars

\* C20 witness: routeBuilder has refused a configuration for an entry that is
\* no function on a node with a route, next to a node with a valid route, and
\* the registry is empty
InvalidMiddlewareOnRoutesFailsTheBuildWitness ==
  /\ result.op = "routeBuilder"
  /\ result.status = "route_invalid_middleware"
  /\ \E p \in InvalidMiddlewareUses(cfg) : DeclaresRoutes(cfg, p)
  /\ \E d \in Declarations(cfg) : \A p \in InvalidMiddlewareUses(cfg) : ~IsPrefix(p, d.path)
  /\ routes = <<>>
  /\ DOMAIN routes_by_name = {}

(***************************************************************************)
(* Reads of the registry.                                                  *)
(***************************************************************************)
IsRead == result'.op \in {"match", "generate", "getAll"}

\* C21: match, generate and getAll change neither the route list (the fields
\* of its routes included) nor the name index nor the method and canonical
\* path index, so every read returns after the call what it would have
\* returned before it: reads can be made in any order.
ReadsArePure ==
  [][ IsRead =>
        /\ RegistryUnchanged
        /\ \A p \in RequestPaths : RegistryMatch(routes', p) = RegistryMatch(routes, p)
        /\ \A n \in GenerateNames, ps \in GenerateParameters :
             RegistryGenerate(routes_by_name', n, ps) = RegistryGenerate(routes_by_name, n, ps)
    ]_vars

\* C21 witness: match has found the second of two registered routes
ReadsArePureWitness ==
  /\ result.op = "match"
  /\ Len(routes) >= 2
  /\ result.value = <<routes[2]>>
  /\ result.value # <<routes[1]>>

(***************************************************************************)
(* RouteCollection.                                                        *)
(***************************************************************************)
\* the entries of a collection under other keys than route_name, in order
OtherEntries(coll, route_name) == SelectSeq(coll, LAMBDA e : e.key # route_name)

RECURSIVE AddEach(_, _)
AddEach(coll, entries) ==
  IF entries = <<>> THEN coll
  ELSE AddEach(CollectionAdd(coll, Head(entries).key, Head(entries).route), Tail(entries))

\* C22: after add(name, route) the collection maps name to route, name is the
\* last entry in iteration order and the other entries keep their relative
\* order; addCollection(other) is add for each entry of other in other's
\* iteration order.
AddMovesToEnd ==
  /\ result.op = "collection.add" =>
       /\ CollectionGet(built.coll, result.name) = result.route
       /\ built.coll[Len(built.coll)].key = result.name
       /\ OtherEntries(built.coll, result.name) = OtherEntries(result.value, result.name)
  /\ result.op = "addCollection" => built.coll = AddEach(result.value, result.route)

\* prependMiddleware(mn), ..., prependMiddleware(m1), up to the first that throws
RECURSIVE PrependsFromLast(_, _)
PrependsFromLast(coll, ms) ==
  IF ms = <<>> THEN [err |-> "", coll |-> coll]
  ELSE Then(PrependMiddleware(coll, ms[Len(ms)]),
            LAMBDA c : PrependsFromLast(c, SubSeq(ms, 1, Len(ms) - 1)))

NameOf(d) == RouteOf(d.method, d.dest).route.name

\* the declarations of a node in the order get, post, delete, put, patch
InMethodOrder(rs) ==
  Flatten([k \in 1..Len(HTTP_METHODS) |->
             SelectSeq(rs, LAMBDA d : d.method = HTTP_METHODS[k])])

\* the names of the routes of a tree in pre-order: a node's own routes, then
\* its sub-configurations one after the other
RECURSIVE PreOrder(_)
PreOrder(node) ==
  [i \in 1..Len(node.routes) |-> NameOf(InMethodOrder(node.routes)[i])]
  \o Flatten([i \in 1..Len(SubConfigurations(node)) |->
                PreOrder(SubConfigurations(node)[i].node)])

DistinctNames(names) ==
  \A i \in 1..Len(names) : \A j \in 1..Len(names) : names[i] = names[j] => i = j

\* the names of the last n routes of the registry, in registration order
LastRegistered(n) ==
  [i \in 1..n |-> routes[Len(routes) - n + i].name]

\* C24: a successful routeBuilder on a configuration whose routes have
\* pairwise distinct names appends the routes in the pre-order of the tree: a
\* node's own routes in the order get, post, delete, put, patch, then the
\* routes of its child nodes in the declaration order of the prefix keys.
RegistrationInPreOrder ==
  (result.op = "routeBuilder" /\ result.status = "" /\ DistinctNames(PreOrder(cfg)))
    => /\ Len(routes) >= Len(PreOrder(cfg))
       /\ LastRegistered(Len(PreOrder(cfg))) = PreOrder(cfg)

(***************************************************************************)
(* Failed calls on the registry.                                           *)
(***************************************************************************)
\* C25: when add fails with the path collision or the name collision error,
\* the route list, the name index and the method and canonical path index
\* are as they were before the call.
FailedAddLeavesRegistry ==
  [][ (/\ result'.op \in {"add", "addRoute"}
       /\ result'.status \in {"route_registry_path_collision", "route_registry_name_collision"})
        => RegistryUnchanged
    ]_vars

CollisionErrors == {"route_registry_path_collision", "route_registry_name_collision"}

\* C26: when routeBuilder fails, for a compile error in the tree or for a
\* collision on one of its routes, the route list and both indexes are as
\* they were before the call.
RouteBuilderAllOrNothing ==
  [][ (result'.op = "routeBuilder" /\ result'.status # "") => RegistryUnchanged ]_vars

\* C26 as amended: when routeBuilder fails for a compile error in the tree,
\* the route list and both indexes are as they were before the call.
CompileErrorRegistersNothing ==
  [][ (result'.op = "routeBuilder" /\ result'.status # ""
         /\ result'.status \notin CollisionErrors)
        => RegistryUnchanged
    ]_vars

\* C26 witness: routeBuilder has failed for a compile error on a registry
\* that holds routes
CompileErrorRegistersNothingWitness ==
  /\ result.op = "routeBuilder"
  /\ result.status = "invalid_trait_requested"
  /\ Len(routes) >= 2
  /\ Cardinality(DOMAIN routes_by_name) = Len(routes)

\* C27: a successful routeBuilder registers one route for every method key
\* of the configuration tree, so a configuration in which two routes get the
\* same name does not succeed with one of them missing.
NoRouteDropped ==
  (result.op = "routeBuilder" /\ result.status = "")
    => /\ Len(result.value) = Len(PreOrder(cfg))
       /\ Len(routes) >= Len(PreOrder(cfg))

(***************************************************************************)
(* The indexes of the registry.                                            *)
(***************************************************************************)
\* the names a route is registered under
NamesOf(route) == { n \in DOMAIN routes_by_name : routes_by_name[n] = route }

\* C28: after any sequence of add, addRoute and routeBuilder calls, failed
\* ones included, the listed routes have pairwise distinct registered names
\* and pairwise disjoint sets of method and canonical path keys, the name
\* index has exactly one entry per listed route and maps it to that route,
\* and every listed route is found in the path index under each of its
\* methods.
RegistryIndexInvariant ==
  /\ \A i \in 1..Len(routes) : \A j \in 1..Len(routes) :
       i # j => /\ MethodPaths(routes[i]) \cap MethodPaths(routes[j]) = {}
                /\ NamesOf(routes[i]) \cap NamesOf(routes[j]) = {}
  /\ \A i \in 1..Len(routes) : Cardinality(NamesOf(routes[i])) = 1
  /\ \A n \in DOMAIN routes_by_name : \E i \in 1..Len(routes) : routes[i] = routes_by_name[n]
  /\ \A i \in 1..Len(routes) : \A k \in MethodPaths(routes[i]) :
       /\ k \in DOMAIN routes_by_canonical_path
       /\ routes_by_canonical_path[k] = routes[i]

\* C28 witness: routes are listed, one of them with two methods, after a call
\* that failed and left a key of a route that is not listed
RegistryIndexInvariantWitness ==
  /\ Len(routes) >= 2
  /\ \E i \in 1..Len(routes) : Len(routes[i].methods) = 2
  /\ result.status \in CollisionErrors
  /\ \E k \in DOMAIN routes_by_canonical_path :
       \A i \in 1..Len(routes) : routes[i] # routes_by_canonical_path[k]

(***************************************************************************)
(* Names and compiled state of the routes of a collection.                 *)
(***************************************************************************)
KeysOf(coll) == { coll[i].key : i \in 1..Len(coll) }

\* C29: a route of the builder has the name it was constructed with, the
\* explicit one or the one derived from its destination and the pattern of
\* its node before any prefix, whatever prefix was put before its pattern
\* since; every entry of the collection is stored under its route's name.
NamesFixedAtConstruction ==
  (built # NotBuilt /\ built.err = "")
    => /\ \A i \in 1..Len(built.coll) : built.coll[i].key = built.coll[i].route.name
       /\ KeysOf(built.coll) = Range(PreOrder(cfg))

\* C29 witness: the route of an anonymous get handler is stored under get,
\* the name made from the empty pattern, with two prefixes before its pattern
NamesFixedAtConstructionWitness ==
  /\ result.op = "addPrefix"
  /\ \E i \in 1..Len(built.coll) :
       /\ built.coll[i].key = "get"
       /\ built.coll[i].route.name = "get"
       /\ built.coll[i].route.action = "anon"
       /\ Len(built.coll[i].route.pattern) = 4

\* the generator and the canonical path of a route are those of its pattern,
\* and compiling the pattern again changes nothing
Fresh(r) ==
  /\ r.compiled_route = <<r.pattern>>
  /\ r.canonical_route_path = GenerateCanonicalRoutePath(r.pattern)
  /\ Compile(r) = r

====
